---- MODULE Spec2Model ----
(***************************************************************************)
(* A model of the raw-dump part builder of prjcombine                      *)
(* (src/xilinx/rawdump.rs): the interning tables, the site-slot            *)
(* classifier, add_tile, add_node, finish, and the round trip through      *)
(* to_file / from_file with post_deserialize.                              *)
(*                                                                         *)
(* The specifications share the state and the operators.  Spec: tiles at   *)
(* any coordinates, nodes, finish and the round trip.  SpecT: a row of     *)
(* tiles of one kind with sites, wires and pips, for the merge done by     *)
(* add_tile.  SpecDup: the same row where a call may be repeated.  SpecM:  *)
(* a row whose tiles may disagree on a site, a pin or a pip, with nodes.   *)
(* SpecS: tiles with one or two sites, for the classifier.  SpecR: a row   *)
(* with pips, written and read back.  SpecC: the handle constructors at    *)
(* the limits of their types.  SpecB: the batch dump of the binaries       *)
(* (src/bin/dump_ise_parts.rs, src/bin/dump_vivado_parts.rs), one task     *)
(* per device over a shared directory.  SpecP: the pure functions          *)
(* split_partname (src/xilinx/ise/partgen.rs) and split_xy, called on      *)
(* names.  SpecN: tiles first, then add_node calls that name every         *)
(* reported (tile, wire) pair at most once.                                *)
(*                                                                         *)
(* Conventions.  A Rust str is a sequence of one-character strings, so    *)
(* that the parsing the classifier does on names is modelled by what it   *)
(* does.  Option<T> is a record [some, v].  Vec indices and handles are    *)
(* 0-based as in the code; Vec v at index i is v[i + 1].  A HashMap is a   *)
(* function on its key set.  A panic ends the build: the operators return  *)
(* the builder with err set, and the action records err and leaves the     *)
(* builder as it was when the call was made.                               *)
(***************************************************************************)
EXTENDS Integers, Sequences, FiniteSets, TLC

\* ------------------------------------------------------------------------
\* Handles and their sentinels
\* ------------------------------------------------------------------------
\* u32::MAX.  TLC's integers are 32-bit signed, so the largest value of the
\* handle type is modelled by the largest integer TLC has; the sentinels are,
\* as in the code, the largest and the second largest value of the type.
U32_MAX == 2147483647
U16_MAX == 65535
U8_MOD == 256

WireIdx_NONE == U32_MAX
SpeedIdx_NONE == U32_MAX
SpeedIdx_UNKNOWN == U32_MAX - 1
NodeIdx_NONE == U32_MAX
NodeIdx_PENDING == U32_MAX - 1

\* The handle constructors, on the length i of the table the handle is made
\* for; -1 stands for the panic of a failed check.  A length is a usize, the
\* handle is `i as u32` or `i as u16`: the low bits of i.
\* a from_raw that lets the length u32::MAX through
WireIdx_from_raw_le(i) == IF i <= U32_MAX THEN i ELSE -1

WireIdx_from_raw(i) == IF ~(i < U32_MAX) THEN -1 ELSE i

SpeedIdx_from_raw(i) == IF ~(i < U32_MAX - 1) THEN -1 ELSE i

NodeIdx_from_raw(i) == IF ~(i < U32_MAX - 1) THEN -1 ELSE i

\* the check and the cast of slot_kind_to_idx
SlotKindIdx(i) == IF i > U16_MAX THEN -1 ELSE i % (U16_MAX + 1)

\* the check and the cast of add_node for a new template
TemplateIdx(i) == IF i > U32_MAX THEN -1 ELSE i

OK == "ok"

\* ------------------------------------------------------------------------
\* Generic helpers for Vec / HashMap / str
\* ------------------------------------------------------------------------
EmptyMap == <<>>

\* HashMap::insert
MapInsert(m, k, v) == [x \in (DOMAIN m) \cup {k} |-> IF x = k THEN v ELSE m[x]]

\* a resize to twice the length asked for
Resize_double(v, n, fill) == [i \in 1..(2 * n) |-> IF i <= Len(v) THEN v[i] ELSE fill]

\* Vec::resize(n, fill) when the Vec is shorter than n
Resize(v, n, fill) == [i \in 1..n |-> IF i <= Len(v) THEN v[i] ELSE fill]

\* v[i] = x with 0-based i, growing the Vec with fill first when needed
VecSet(v, i, x, fill) ==
    LET w == IF Len(v) <= i THEN Resize(v, i + 1, fill) ELSE v
    IN  [w EXCEPT ![i + 1] = x]

Range(s) == {s[i] : i \in DOMAIN s}

Min(S) == CHOOSE m \in S : \A n \in S : m <= n

\* &s[from..to] on a char sequence, 0-based, to exclusive
Slice(s, from, to) == SubSeq(s, from + 1, to)

StartsWith(s, p) == Len(s) >= Len(p) /\ SubSeq(s, 1, Len(p)) = p

\* positions (0-based) at which pat occurs in s
Occurrences(s, pat) ==
    {p \in 0..(Len(s) - Len(pat)) : SubSeq(s, p + 1, p + Len(pat)) = pat}

\* str::find / str::rfind : -1 stands for None
Find(s, pat) == LET o == Occurrences(s, pat) IN IF o = {} THEN -1 ELSE Min(o)
RFind(s, pat) ==
    LET o == Occurrences(s, pat)
    IN  IF o = {} THEN -1 ELSE CHOOSE m \in o : \A n \in o : n <= m

Digits == <<"0", "1", "2", "3", "4", "5", "6", "7", "8", "9">>
IsDigit(c) == c \in Range(Digits)
DigitVal(c) == (CHOOSE i \in DOMAIN Digits : Digits[i] = c) - 1

RECURSIVE DecValue(_)
DecValue(s) ==
    IF s = <<>> THEN 0
    ELSE DecValue(SubSeq(s, 1, Len(s) - 1)) * 10 + DigitVal(s[Len(s)])

\* the value of the first n digits of s as the parser accumulates it, with
\* its checked multiplication and addition: -1 once the value is above max
RECURSIVE ParseAcc(_, _, _)
ParseAcc(s, n, max) ==
    IF n = 0 THEN 0
    ELSE LET prev == ParseAcc(s, n - 1, max)
         IN  IF prev = -1 \/ prev > (max - DigitVal(s[n])) \div 10 THEN -1
             ELSE prev * 10 + DigitVal(s[n])

\* str::parse::<uN>() with the type's maximum: an optional leading "+", then
\* at least one digit, nothing else, and no overflow.  -1 stands for Err.
ParseUnsigned(s, max) ==
    LET body == IF s # <<>> /\ s[1] = "+" THEN Tail(s) ELSE s
    IN  IF body = <<>> \/ \E i \in DOMAIN body : ~IsDigit(body[i]) THEN -1
        ELSE ParseAcc(body, Len(body), max)

\* ------------------------------------------------------------------------
\* split_xy, get_lastnum
\* ------------------------------------------------------------------------
NoXy == [base |-> <<>>, ok |-> FALSE, x |-> 0, y |-> 0]

split_xy(s) ==
    LET pos == RFind(s, <<"_", "X">>) IN
    IF pos = -1 THEN NoXy
    ELSE LET l == Slice(s, 0, pos)
             r == Slice(s, pos + 2, Len(s))
             ypos == RFind(r, <<"Y">>)
         IN  IF ypos = -1 THEN NoXy
             ELSE LET x == ParseUnsigned(Slice(r, 0, ypos), U32_MAX)
                      y == ParseUnsigned(Slice(r, ypos + 1, Len(r)), U32_MAX)
                  IN  IF x = -1 \/ y = -1 THEN NoXy
                      ELSE [base |-> l, ok |-> TRUE, x |-> x, y |-> y]

\* The running value of num after the first n characters: -1 stands for
\* None, -2 for an arithmetic overflow of the u8 accumulator in a build with
\* overflow checks (the accumulator wraps modulo 256 in a build without).
RECURSIVE LastNumAcc(_, _, _)
LastNumAcc(s, n, checks) ==
    IF n = 0 THEN -1
    ELSE LET prev == LastNumAcc(s, n - 1, checks)
             c == s[n]
         IN  IF prev = -2 THEN -2
             ELSE IF ~IsDigit(c) THEN -1
             ELSE IF prev = -1 THEN DigitVal(c)
             ELSE LET v == prev * 10 + DigitVal(c)
                  IN  IF v < U8_MOD THEN v
                      ELSE IF checks THEN -2 ELSE v % U8_MOD

\* get_lastnum: a value below 0 is a panic (unwrap of None, or overflow)
get_lastnum(s, checks) == LastNumAcc(s, Len(s), checks)

\* ------------------------------------------------------------------------
\* String literals of the classifier
\* ------------------------------------------------------------------------
\* the family names the classifier tests for
Family ==
    [xc4000e |-> <<"x", "c", "4", "0", "0", "0", "e">>,
     xc4000ex |-> <<"x", "c", "4", "0", "0", "0", "e", "x">>,
     xc4000xla |-> <<"x", "c", "4", "0", "0", "0", "x", "l", "a">>,
     xc4000xv |-> <<"x", "c", "4", "0", "0", "0", "x", "v">>,
     spartanxl |-> <<"s", "p", "a", "r", "t", "a", "n", "x", "l">>,
     virtex |-> <<"v", "i", "r", "t", "e", "x">>,
     virtexe |-> <<"v", "i", "r", "t", "e", "x", "e">>,
     virtex2 |-> <<"v", "i", "r", "t", "e", "x", "2">>,
     virtex2p |-> <<"v", "i", "r", "t", "e", "x", "2", "p">>,
     spartan3 |-> <<"s", "p", "a", "r", "t", "a", "n", "3">>,
     spartan6 |-> <<"s", "p", "a", "r", "t", "a", "n", "6">>,
     virtex7 |-> <<"v", "i", "r", "t", "e", "x", "7">>]

\* the site kind strings the classifier tests for ("PRI-CLK" and
\* "SEC-CLK" under the field names PRI_CLK and SEC_CLK)
SiteKind ==
    [IOB |-> <<"I", "O", "B">>,
     CLKIOB |-> <<"C", "L", "K", "I", "O", "B">>,
     FCLKIOB |-> <<"F", "C", "L", "K", "I", "O", "B">>,
     CIN |-> <<"C", "I", "N">>,
     COUT |-> <<"C", "O", "U", "T">>,
     BUFF |-> <<"B", "U", "F", "F">>,
     PRI_CLK |-> <<"P", "R", "I", "-", "C", "L", "K">>,
     SEC_CLK |-> <<"S", "E", "C", "-", "C", "L", "K">>,
     BUFGP |-> <<"B", "U", "F", "G", "P">>,
     BUFGS |-> <<"B", "U", "F", "G", "S">>,
     BUFG |-> <<"B", "U", "F", "G">>,
     BUFGE |-> <<"B", "U", "F", "G", "E">>,
     BUFGLS |-> <<"B", "U", "F", "G", "L", "S">>,
     EMPTYIOB |-> <<"E", "M", "P", "T", "Y", "I", "O", "B">>,
     PCIIOB |-> <<"P", "C", "I", "I", "O", "B">>,
     DLLIOB |-> <<"D", "L", "L", "I", "O", "B">>,
     TBUF |-> <<"T", "B", "U", "F">>,
     SLICE |-> <<"S", "L", "I", "C", "E">>,
     GCLKIOB |-> <<"G", "C", "L", "K", "I", "O", "B">>,
     GCLK |-> <<"G", "C", "L", "K">>,
     DLL |-> <<"D", "L", "L">>,
     GTIPAD |-> <<"G", "T", "I", "P", "A", "D">>,
     GTOPAD |-> <<"G", "T", "O", "P", "A", "D">>,
     IBUF |-> <<"I", "B", "U", "F">>,
     DIFF |-> <<"D", "I", "F", "F">>,
     DCI |-> <<"D", "C", "I">>,
     BUFGMUX |-> <<"B", "U", "F", "G", "M", "U", "X">>]

\* the pin names the classifier reads a number from
PinName ==
    [O |-> <<"O">>,
     I |-> <<"I">>,
     CIN |-> <<"C", "I", "N">>,
     GCLKOUT |-> <<"G", "C", "L", "K", "O", "U", "T">>,
     CE |-> <<"C", "E">>,
     T |-> <<"T">>,
     PADOUT |-> <<"P", "A", "D", "O", "U", "T">>]

\* the eight clock-buffer compass suffixes, in the order of their indices
CompassSuffixes == << <<"_", "W", "N", "W">>,
    <<"_", "E", "N", "E">>,
    <<"_", "N", "N", "E">>,
    <<"_", "S", "S", "E">>,
    <<"_", "E", "S", "E">>,
    <<"_", "W", "S", "W">>,
    <<"_", "S", "S", "W">>,
    <<"_", "N", "N", "W">> >>
\* the DLL site names and their indices
DllNames == << <<"D", "L", "L", "0">>,
    <<"D", "L", "L", "1">>,
    <<"D", "L", "L", "2">>,
    <<"D", "L", "L", "3">>,
    <<"D", "L", "L", "0", "P">>,
    <<"D", "L", "L", "1", "P">>,
    <<"D", "L", "L", "2", "P">>,
    <<"D", "L", "L", "3", "P">>,
    <<"D", "L", "L", "0", "S">>,
    <<"D", "L", "L", "1", "S">>,
    <<"D", "L", "L", "2", "S">>,
    <<"D", "L", "L", "3", "S">> >>
DllIndex == <<0, 1, 2, 3, 0, 1, 2, 3, 4, 5, 6, 7>>

\* Option<&str>
None == [some |-> FALSE, v |-> <<>>]
Some(s) == [some |-> TRUE, v |-> s]

\* ------------------------------------------------------------------------
\* The builder.  b is a record with the fields of PartBuilder, plus err (the
\* panic message, OK while none was raised) and overflow_checks (whether the
\* build traps on arithmetic overflow).
\* ------------------------------------------------------------------------
Panic(b, msg) == IF b.err = OK THEN [b EXCEPT !.err = msg] ELSE b

\* a wire_to_idx that puts a new name in front of the table
wire_to_idx_front(b, s) ==
    IF b.err # OK THEN [b |-> b, i |-> WireIdx_NONE]
    ELSE IF s \in DOMAIN b.wires_by_name THEN [b |-> b, i |-> b.wires_by_name[s]]
    ELSE [b |-> [b EXCEPT !.part.wires = <<s>> \o @,
                          !.wires_by_name = MapInsert(@, s, Len(b.part.wires))],
          i |-> Len(b.part.wires)]

\* a wire_to_idx that appends the name without a look at wires_by_name
wire_to_idx_fresh(b, s) ==
    IF b.err # OK THEN [b |-> b, i |-> WireIdx_NONE]
    ELSE [b |-> [b EXCEPT !.part.wires = Append(@, s),
                          !.wires_by_name = MapInsert(@, s, Len(b.part.wires))],
          i |-> Len(b.part.wires)]

wire_to_idx(b, s) ==
    IF b.err # OK THEN [b |-> b, i |-> WireIdx_NONE]
    ELSE IF s \in DOMAIN b.wires_by_name THEN [b |-> b, i |-> b.wires_by_name[s]]
    ELSE LET i == WireIdx_from_raw(Len(b.part.wires)) IN
         IF i = -1 THEN [b |-> Panic(b, "assertion failed"), i |-> WireIdx_NONE]
         ELSE [b |-> [b EXCEPT !.part.wires = Append(@, s),
                               !.wires_by_name = MapInsert(@, s, i)],
               i |-> i]

\* a speed_to_idx that interns the absent speed as the empty name
speed_to_idx_named(b, s) ==
    IF b.err # OK THEN [b |-> b, i |-> SpeedIdx_NONE]
    ELSE IF s.v \in DOMAIN b.speeds_by_name THEN [b |-> b, i |-> b.speeds_by_name[s.v]]
    ELSE [b |-> [b EXCEPT !.part.speeds = Append(@, s.v),
                          !.speeds_by_name = MapInsert(@, s.v, Len(b.part.speeds))],
          i |-> Len(b.part.speeds)]

speed_to_idx(b, s) ==
    IF b.err # OK THEN [b |-> b, i |-> SpeedIdx_NONE]
    ELSE IF ~s.some THEN [b |-> b, i |-> SpeedIdx_UNKNOWN]
    ELSE IF s.v \in DOMAIN b.speeds_by_name THEN [b |-> b, i |-> b.speeds_by_name[s.v]]
    ELSE LET i == SpeedIdx_from_raw(Len(b.part.speeds)) IN
         IF i = -1 THEN [b |-> Panic(b, "assertion failed"), i |-> SpeedIdx_NONE]
         ELSE [b |-> [b EXCEPT !.part.speeds = Append(@, s.v),
                               !.speeds_by_name = MapInsert(@, s.v, i)],
               i |-> i]

slot_kind_to_idx(b, s) ==
    IF b.err # OK THEN [b |-> b, i |-> 0]
    ELSE IF s \in DOMAIN b.slot_kinds_by_name THEN [b |-> b, i |-> b.slot_kinds_by_name[s]]
    ELSE LET i == SlotKindIdx(Len(b.part.slot_kinds)) IN
         IF i = -1 THEN [b |-> Panic(b, "out of slot kinds"), i |-> 0]
         ELSE [b |-> [b EXCEPT !.part.slot_kinds = Append(@, s),
                               !.slot_kinds_by_name = MapInsert(@, s, i)],
               i |-> i]

\* ------------------------------------------------------------------------
\* slotify
\* ------------------------------------------------------------------------
Single(k) == [tag |-> "Single", kind |-> k, a |-> 0, b |-> 0]
Indexed(k, i) == [tag |-> "Indexed", kind |-> k, a |-> i, b |-> 0]
Xy(k, dx, dy) == [tag |-> "Xy", kind |-> k, a |-> dx, b |-> dy]

\* from_pinnum: the last number of the wire of the first pin named pin; a
\* value below 0 is a panic (no such pin, no wire on it, no number, overflow)
from_pinnum(pins, pin, checks) ==
    LET hits == {i \in DOMAIN pins : pins[i].name = pin} IN
    IF hits = {} THEN -3
    ELSE LET p == pins[Min(hits)] IN
         IF ~p.wire.some THEN -1 ELSE get_lastnum(p.wire.v, checks)

\* one site in the first loop of slotify: sp is split_xy of its name
SlotifyMinXySite(prev, sp) ==
    IF ~sp.ok THEN prev
    ELSE LET r == slot_kind_to_idx(prev.b, sp.base)
             e == IF r.i \in DOMAIN prev.minxy THEN prev.minxy[r.i]
                  ELSE <<sp.x, sp.y>>
             e2 == <<IF sp.x < e[1] THEN sp.x ELSE e[1],
                     IF sp.y < e[2] THEN sp.y ELSE e[2]>>
         IN  [b |-> r.b, minxy |-> MapInsert(prev.minxy, r.i, e2)]

\* The first loop of slotify over the first n sites: the slot kinds interned
\* and the minimum x and y seen per slot kind.
RECURSIVE SlotifyMinXy(_, _, _)
SlotifyMinXy(b, sites, n) ==
    IF n = 0 THEN [b |-> b, minxy |-> EmptyMap]
    ELSE SlotifyMinXySite(SlotifyMinXy(b, sites, n - 1), split_xy(sites[n].name))

IsXc4000(f) ==
    f \in {Family.xc4000e, Family.xc4000ex, Family.xc4000xla, Family.xc4000xv, Family.spartanxl}

\* What the classifier decides for one site, before interning: the string
\* whose slot kind is interned, the variant, and its numbers.  A number below
\* 0 is a panic.
Decide(str, tag, a, b) == [str |-> str, tag |-> tag, a |-> a, b |-> b]

CompassIndex(sfx) ==
    IF \E i \in DOMAIN CompassSuffixes : CompassSuffixes[i] = sfx
    THEN (CHOOSE i \in DOMAIN CompassSuffixes : CompassSuffixes[i] = sfx) - 1
    ELSE -4

DllNameIndex(n) ==
    IF \E i \in DOMAIN DllNames : DllNames[i] = n
    THEN DllIndex[CHOOSE i \in DOMAIN DllNames : DllNames[i] = n]
    ELSE -4

SlotDecision(family, n, k, p, minxy_of, checks) ==
    IF IsXc4000(family) THEN
        LET urpos == Find(n, <<"_", "R">>)
            dpos == Find(n, <<".">>)
        IN  IF urpos # -1 THEN
                IF dpos # -1
                THEN Decide(Slice(n, 0, urpos), "Indexed",
                            LET v == ParseUnsigned(Slice(n, dpos + 1, Len(n)), U8_MOD - 1)
                            IN  IF v = -1 THEN -5 ELSE v, 0)
                ELSE Decide(Slice(n, 0, urpos), "Single", 0, 0)
            ELSE IF k \in {SiteKind.IOB, SiteKind.CLKIOB, SiteKind.FCLKIOB}
                 THEN Decide(SiteKind.IOB, "Indexed", from_pinnum(p, PinName.O, checks), 0)
            ELSE IF k \in {SiteKind.CIN, SiteKind.COUT, SiteKind.BUFF} THEN Decide(k, "Single", 0, 0)
            ELSE IF k = SiteKind.PRI_CLK THEN Decide(SiteKind.BUFGP, "Single", 0, 0)
            ELSE IF k = SiteKind.SEC_CLK THEN Decide(SiteKind.BUFGS, "Single", 0, 0)
            ELSE IF k \in {SiteKind.BUFG, SiteKind.BUFGE, SiteKind.BUFGLS} THEN
                LET pos == Find(n, <<"_">>) IN
                IF pos = -1 THEN Decide(<<>>, "Indexed", -1, 0)
                ELSE Decide(Slice(n, 0, pos), "Indexed",
                            CompassIndex(Slice(n, pos, Len(n))), 0)
            ELSE Decide(n, "Single", 0, 0)
    ELSE IF family \in {Family.virtex, Family.virtexe} THEN
        IF k \in {SiteKind.IOB, SiteKind.EMPTYIOB, SiteKind.PCIIOB, SiteKind.DLLIOB}
        THEN Decide(SiteKind.IOB, "Indexed", from_pinnum(p, PinName.I, checks), 0)
        ELSE IF k = SiteKind.TBUF THEN Decide(k, "Indexed", from_pinnum(p, PinName.O, checks), 0)
        ELSE IF k = SiteKind.SLICE THEN Decide(k, "Indexed", from_pinnum(p, PinName.CIN, checks), 0)
        ELSE IF k = SiteKind.GCLKIOB THEN Decide(k, "Indexed", from_pinnum(p, PinName.GCLKOUT, checks), 0)
        ELSE IF k = SiteKind.GCLK THEN Decide(k, "Indexed", from_pinnum(p, PinName.CE, checks), 0)
        ELSE IF k = SiteKind.DLL THEN Decide(k, "Indexed", DllNameIndex(n), 0)
        ELSE Decide(k, "Single", 0, 0)
    ELSE IF k = SiteKind.TBUF /\ StartsWith(family, Family.virtex2)
    THEN Decide(k, "Indexed", from_pinnum(p, PinName.O, checks), 0)
    ELSE IF k \in {SiteKind.GTIPAD, SiteKind.GTOPAD} /\ family = Family.virtex2p THEN
        Decide(k, "Indexed",
               IF Len(n) < 3 THEN -6
               ELSE IF n[3] = "P" THEN 0 ELSE IF n[3] = "N" THEN 1 ELSE -4, 0)
    ELSE IF split_xy(n).ok THEN
        LET sp == split_xy(n)
            m == minxy_of[sp.base]
        IN  Decide(sp.base, "Xy", (sp.x - m[1]) % U8_MOD, (sp.y - m[2]) % U8_MOD)
    ELSE IF (StartsWith(family, Family.virtex2) \/ StartsWith(family, Family.spartan3))
            /\ (StartsWith(k, SiteKind.IOB) \/ StartsWith(k, SiteKind.IBUF) \/ StartsWith(k, SiteKind.DIFF))
    THEN Decide(SiteKind.IOB, "Indexed", from_pinnum(p, PinName.T, checks), 0)
    ELSE IF ((StartsWith(family, Family.virtex2) \/ family = Family.spartan3) /\ StartsWith(k, SiteKind.DCI))
            \/ (family = Family.spartan3 /\ k = SiteKind.BUFGMUX)
    THEN Decide(k, "Indexed", get_lastnum(n, checks), 0)
    ELSE IF StartsWith(family, Family.virtex2) /\ k = SiteKind.BUFGMUX THEN
        Decide(k, "Indexed",
               IF Len(n) < 8 THEN -6
               ELSE LET v == ParseUnsigned(Slice(n, 7, 8), U8_MOD - 1)
                    IN  IF v = -1 THEN -5 ELSE v, 0)
    ELSE IF family = Family.spartan6 /\ StartsWith(k, SiteKind.IOB)
    THEN Decide(SiteKind.IOB, "Indexed", from_pinnum(p, PinName.PADOUT, checks), 0)
    ELSE Decide(n, "Single", 0, 0)

\* the end of the second loop's body for one site: d is the classifier's
\* decision for it
SlotifyInsert(prev, site, d) ==
    IF d.a < 0 THEN [prev EXCEPT !.b = Panic(@, "slotify panic")]
    ELSE LET r == slot_kind_to_idx(prev.b, d.str)
             slot == [tag |-> d.tag, kind |-> r.i, a |-> d.a, b |-> d.b]
         IN  IF r.b.err # OK THEN [prev EXCEPT !.b = r.b]
             ELSE IF slot \in prev.slots
             THEN [prev EXCEPT !.b = Panic(@, "assertion failed")]
             ELSE [b |-> r.b,
                   res |-> MapInsert(prev.res, site.name, slot),
                   slots |-> prev.slots \cup {slot}]

\* one site in the second loop of slotify.  minxy is keyed by slot kind;
\* every base that parses was interned by the first loop
SlotifySite(prev, minxy, site) ==
    IF prev.b.err # OK THEN prev
    ELSE SlotifyInsert(prev, site,
             SlotDecision(prev.b.part.family, site.name, site.kind, site.pins,
                          [s \in {split_xy(site.name).base} |->
                              IF s \in DOMAIN prev.b.slot_kinds_by_name
                                 /\ prev.b.slot_kinds_by_name[s] \in DOMAIN minxy
                              THEN minxy[prev.b.slot_kinds_by_name[s]]
                              ELSE <<0, 0>>],
                          prev.b.overflow_checks))

\* The second loop of slotify over the first n sites, after the first loop
\* left m = [b, minxy]: res maps a site name to its slot, slots is the set
\* of slots given out.
RECURSIVE SlotifyLoop(_, _, _)
SlotifyLoop(m, sites, n) ==
    IF n = 0 THEN [b |-> m.b, res |-> EmptyMap, slots |-> {}]
    ELSE SlotifySite(SlotifyLoop(m, sites, n - 1), m.minxy, sites[n])

\* slotify: the builder b and the map res of the sites' slots
slotify(b, sites) == SlotifyLoop(SlotifyMinXy(b, sites, Len(sites)), sites, Len(sites))

\* ------------------------------------------------------------------------
\* Tile kinds and tiles
\* ------------------------------------------------------------------------
Internal(s) == [tag |-> "Internal", v |-> s]
Connected(i) == [tag |-> "Connected", v |-> i]
Const(s) == [tag |-> "Const", v |-> s]
Variable(i) == [tag |-> "Variable", v |-> i]

\* Tile::set_conn_wire without its check: the new value always replaces the
\* old one
Tile_set_conn_wire_unchecked(b, crd, idx, val) ==
    IF b.err # OK THEN b
    ELSE [b EXCEPT !.part.tiles[crd].conn_wires = VecSet(@, idx, val, NodeIdx_NONE)]

\* Tile::set_conn_wire on the tile at crd; panics when a slot that holds a
\* node is given another value than PENDING
Tile_set_conn_wire(b, crd, idx, val) ==
    IF b.err # OK THEN b
    ELSE LET cw == b.part.tiles[crd].conn_wires
             grown == IF Len(cw) <= idx THEN Resize(cw, idx + 1, NodeIdx_NONE) ELSE cw
         IN  IF grown[idx + 1] # NodeIdx_PENDING /\ grown[idx + 1] # NodeIdx_NONE
                /\ val # NodeIdx_PENDING
             THEN Panic(b, "conn wire double set")
             ELSE [b EXCEPT !.part.tiles[crd].conn_wires = [grown EXCEPT ![idx + 1] = val]]

\* Tile::set_var_pip on the tile at crd
Tile_set_var_pip(b, crd, idx, val) ==
    IF b.err # OK THEN b
    ELSE [b EXCEPT !.part.tiles[crd].var_pips = VecSet(@, idx, val, SpeedIdx_NONE)]

\* a has_wire that answers for the Internal wires only
Tile_has_wire_internal(tile, tk, w) ==
    IF w \notin DOMAIN tk.wires THEN FALSE
    ELSE tk.wires[w].tag = "Internal"

\* Tile::has_wire
Tile_has_wire(tile, tk, w) ==
    IF w \notin DOMAIN tk.wires THEN FALSE
    ELSE IF tk.wires[w].tag = "Internal" THEN TRUE
    ELSE LET idx == tk.wires[w].v IN
         IF idx >= Len(tile.conn_wires) THEN FALSE
         ELSE tile.conn_wires[idx + 1] # NodeIdx_NONE

\* for crd in &tk.tiles { tiles[crd].set_conn_wire(i, val) }, first n entries
RECURSIVE SetConnWireAll(_, _, _, _, _)
SetConnWireAll(b, crds, n, i, val) ==
    IF n = 0 THEN b
    ELSE Tile_set_conn_wire(SetConnWireAll(b, crds, n - 1, i, val), crds[n], i, val)

\* ------------------------------------------------------------------------
\* add_tile: resolving the names of the arguments to handles
\* ------------------------------------------------------------------------
\* wires.iter().map(|(n, s)| (wire_to_idx(n), speed_to_idx(s))), first n
RECURSIVE ResolveWires(_, _, _)
ResolveWires(b, wires, n) ==
    IF n = 0 THEN [b |-> b, out |-> <<>>]
    ELSE LET prev == ResolveWires(b, wires, n - 1)
             w == wire_to_idx(prev.b, wires[n].name)
             s == speed_to_idx(w.b, wires[n].speed)
         IN  [b |-> s.b, out |-> Append(prev.out, [n |-> w.i, s |-> s.i])]

RECURSIVE ResolvePips(_, _, _)
ResolvePips(b, pips, n) ==
    IF n = 0 THEN [b |-> b, out |-> <<>>]
    ELSE LET prev == ResolvePips(b, pips, n - 1)
             p == pips[n]
             wf == wire_to_idx(prev.b, p.wf)
             wt == wire_to_idx(wf.b, p.wt)
             s == speed_to_idx(wt.b, p.speed)
         IN  [b |-> s.b,
              out |-> Append(prev.out,
                  [wf |-> wf.i, wt |-> wt.i, is_buf |-> p.is_buf,
                   is_excluded |-> p.is_excluded, is_test |-> p.is_test,
                   inversion |-> p.inversion, direction |-> p.direction, s |-> s.i])]

RECURSIVE ResolvePins(_, _, _)
ResolvePins(b, pins, n) ==
    IF n = 0 THEN [b |-> b, out |-> <<>>]
    ELSE LET prev == ResolvePins(b, pins, n - 1)
             p == pins[n]
             w == IF p.wire.some THEN wire_to_idx(prev.b, p.wire.v)
                  ELSE [b |-> prev.b, i |-> WireIdx_NONE]
             s == speed_to_idx(w.b, p.speed)
         IN  [b |-> s.b,
              out |-> Append(prev.out, [n |-> p.name, d |-> p.dir, w |-> w.i, s |-> s.i])]

\* sites_raw: (slot, name, kind, pins) per site, first n
RECURSIVE ResolveSites(_, _, _, _)
ResolveSites(b, slots, sites, n) ==
    IF n = 0 THEN [b |-> b, out |-> <<>>]
    ELSE LET prev == ResolveSites(b, slots, sites, n - 1)
             st == sites[n]
             ps == ResolvePins(prev.b, st.pins, Len(st.pins))
         IN  [b |-> ps.b,
              out |-> Append(prev.out,
                  [slot |-> slots[st.name], name |-> st.name, kind |-> st.kind,
                   pins |-> ps.out])]

\* pins.iter().map(..).collect() into a HashMap: a later pin of the same name
\* replaces an earlier one
RECURSIVE PinMap(_, _)
PinMap(pins, n) ==
    IF n = 0 THEN EmptyMap
    ELSE MapInsert(PinMap(pins, n - 1), pins[n].n,
                   [dir |-> pins[n].d, wire |-> pins[n].w, speed |-> pins[n].s])

TkSite(sr) == [slot |-> sr.slot, kind |-> sr.kind, pins |-> PinMap(sr.pins, Len(sr.pins))]

\* ------------------------------------------------------------------------
\* add_tile on an existing kind.  m is the call's state: the builder b and the
\* locals sites, conn_wires, var_pips of the tile being added.
\* ------------------------------------------------------------------------
\* a merge of one pin that takes the later wire whatever is recorded
MergePin_overwrite(b, kind, idx, p) ==
    LET site == b.part.tile_kinds[kind].sites[idx + 1] IN
    IF p.n \notin DOMAIN site.pins THEN Panic(b, "unwrap on None")
    ELSE IF p.w = WireIdx_NONE THEN b
    ELSE IF site.pins[p.n].speed # p.s THEN Panic(b, "pin speed mismatch")
    ELSE [b EXCEPT !.part.tile_kinds[kind].sites[idx + 1].pins[p.n].wire = p.w]

\* one pin of a site that is already in the kind, at index idx
MergePin(b, kind, idx, p) ==
    LET site == b.part.tile_kinds[kind].sites[idx + 1] IN
    IF p.n \notin DOMAIN site.pins THEN Panic(b, "unwrap on None")
    ELSE IF p.w = WireIdx_NONE THEN b
    ELSE LET pin == site.pins[p.n] IN
         IF pin.wire # WireIdx_NONE /\ pin.wire # p.w THEN Panic(b, "pin wire mismatch")
         ELSE IF pin.speed # p.s THEN Panic(b, "pin speed mismatch")
         ELSE [b EXCEPT !.part.tile_kinds[kind].sites[idx + 1].pins[p.n].wire = p.w]

RECURSIVE MergePins(_, _, _, _, _)
MergePins(b, kind, idx, pins, n) ==
    IF n = 0 THEN b
    ELSE LET prev == MergePins(b, kind, idx, pins, n - 1)
         IN  IF prev.err # OK THEN prev ELSE MergePin(prev, kind, idx, pins[n])

\* one site of the tile
MergeSite(m, kind, sr) ==
    LET tk == m.b.part.tile_kinds[kind] IN
    IF sr.slot \in DOMAIN tk.sites_by_slot THEN
        LET idx == tk.sites_by_slot[sr.slot]
            b2 == MergePins(m.b, kind, idx, sr.pins, Len(sr.pins))
        IN  [m EXCEPT !.b = b2, !.sites = VecSet(@, idx, Some(sr.name), None)]
    ELSE
        LET i == Len(tk.sites) IN
        [m EXCEPT
            !.b.part.tile_kinds[kind].sites = Append(@, TkSite(sr)),
            !.b.part.tile_kinds[kind].sites_by_slot = MapInsert(@, sr.slot, i),
            !.sites = VecSet(@, i, Some(sr.name), None)]

RECURSIVE MergeSites(_, _, _, _)
MergeSites(m, kind, sites_raw, n) ==
    IF n = 0 THEN m
    ELSE LET prev == MergeSites(m, kind, sites_raw, n - 1)
         IN  IF prev.b.err # OK THEN prev ELSE MergeSite(prev, kind, sites_raw[n])

\* one wire of the tile, where a promotion reaches the tile being added
\* only, not the tiles the kind already has
MergeWire_local(m, kind, w) ==
    LET tk == m.b.part.tile_kinds[kind]
        i == Len(tk.conn_wires)
        promoted ==
            [m EXCEPT
                !.b.part.tile_kinds[kind].wires = MapInsert(@, w.n, Connected(i)),
                !.b.part.tile_kinds[kind].conn_wires = Append(@, w.n),
                !.conn_wires = VecSet(@, i, NodeIdx_PENDING, NodeIdx_NONE)]
    IN  IF w.n \notin DOMAIN tk.wires THEN promoted
        ELSE IF tk.wires[w.n].tag = "Internal" THEN
            IF tk.wires[w.n].v # w.s THEN promoted ELSE m
        ELSE [m EXCEPT
                 !.conn_wires = VecSet(@, tk.wires[w.n].v, NodeIdx_PENDING, NodeIdx_NONE)]

\* a merge of one wire where a wire that is new to the kind replaces the
\* wire table of the kind
MergeWire_replace(m, kind, w) ==
    LET tk == m.b.part.tile_kinds[kind]
        i == Len(tk.conn_wires)
    IN  IF w.n \notin DOMAIN tk.wires
        THEN [m EXCEPT
                 !.b.part.tile_kinds[kind].wires = MapInsert(EmptyMap, w.n, Connected(i)),
                 !.b.part.tile_kinds[kind].conn_wires = Append(@, w.n),
                 !.conn_wires = VecSet(@, i, NodeIdx_PENDING, NodeIdx_NONE)]
        ELSE m

\* a merge of one wire that keeps an Internal wire whatever speed the tile
\* lists for it
MergeWire_first_speed(m, kind, w) ==
    LET tk == m.b.part.tile_kinds[kind]
        i == Len(tk.conn_wires)
    IN  IF w.n \notin DOMAIN tk.wires
        THEN [m EXCEPT
                 !.b.part.tile_kinds[kind].wires = MapInsert(@, w.n, Connected(i)),
                 !.b.part.tile_kinds[kind].conn_wires = Append(@, w.n),
                 !.conn_wires = VecSet(@, i, NodeIdx_PENDING, NodeIdx_NONE)]
        ELSE IF tk.wires[w.n].tag = "Internal" THEN m
        ELSE [m EXCEPT
                 !.conn_wires = VecSet(@, tk.wires[w.n].v, NodeIdx_PENDING, NodeIdx_NONE)]

\* a merge of one wire that marks every tile of the kind PENDING also for a
\* wire that is Connected already
MergeWire_pending_all(m, kind, w) ==
    LET tk == m.b.part.tile_kinds[kind]
        i == Len(tk.conn_wires)
        promoted ==
            [m EXCEPT
                !.b.part.tile_kinds[kind].wires = MapInsert(@, w.n, Connected(i)),
                !.b.part.tile_kinds[kind].conn_wires = Append(@, w.n),
                !.conn_wires = VecSet(@, i, NodeIdx_PENDING, NodeIdx_NONE)]
    IN  IF w.n \notin DOMAIN tk.wires THEN promoted
        ELSE IF tk.wires[w.n].tag = "Internal" THEN
            IF tk.wires[w.n].v # w.s
            THEN [promoted EXCEPT
                     !.b = SetConnWireAll(@, tk.tiles, Len(tk.tiles), i, NodeIdx_PENDING)]
            ELSE m
        ELSE [m EXCEPT
                 !.b = SetConnWireAll(@, tk.tiles, Len(tk.tiles), tk.wires[w.n].v,
                                      NodeIdx_PENDING),
                 !.conn_wires = VecSet(@, tk.wires[w.n].v, NodeIdx_PENDING, NodeIdx_NONE)]

\* one wire of the tile
MergeWire(m, kind, w) ==
    LET tk == m.b.part.tile_kinds[kind]
        i == Len(tk.conn_wires)
        promoted ==
            [m EXCEPT
                !.b.part.tile_kinds[kind].wires = MapInsert(@, w.n, Connected(i)),
                !.b.part.tile_kinds[kind].conn_wires = Append(@, w.n),
                !.conn_wires = VecSet(@, i, NodeIdx_PENDING, NodeIdx_NONE)]
    IN  IF w.n \notin DOMAIN tk.wires THEN promoted
        ELSE IF tk.wires[w.n].tag = "Internal" THEN
            IF tk.wires[w.n].v # w.s
            THEN [promoted EXCEPT
                     !.b = SetConnWireAll(@, tk.tiles, Len(tk.tiles), i, NodeIdx_PENDING)]
            ELSE m
        ELSE [m EXCEPT
                 !.conn_wires = VecSet(@, tk.wires[w.n].v, NodeIdx_PENDING, NodeIdx_NONE)]

RECURSIVE MergeWires(_, _, _, _)
MergeWires(m, kind, wires, n) ==
    IF n = 0 THEN m
    ELSE LET prev == MergeWires(m, kind, wires, n - 1)
         IN  IF prev.b.err # OK THEN prev ELSE MergeWire(prev, kind, wires[n])

TkPip(p, mode) ==
    [is_buf |-> p.is_buf, is_excluded |-> p.is_excluded, is_test |-> p.is_test,
     inversion |-> p.inversion, direction |-> p.direction, mode |-> mode]

PipFlags(p) == <<p.is_buf, p.is_excluded, p.is_test, p.inversion, p.direction>>

\* a sibling tile left without a speed for a pip that becomes Variable
SiblingPipSpeed_none(tile, tk, wf, wt, cs) == SpeedIdx_NONE

\* the speed a sibling tile gets for a pip that becomes Variable
SiblingPipSpeed(tile, tk, wf, wt, cs) ==
    IF Tile_has_wire(tile, tk, wf) /\ Tile_has_wire(tile, tk, wt)
    THEN cs ELSE SpeedIdx_NONE

\* for crd in &tk.tiles { tile.set_var_pip(i, ..) }, first n entries
RECURSIVE SetVarPipAll(_, _, _, _, _, _, _, _)
SetVarPipAll(b, kind, crds, n, i, wf, wt, cs) ==
    IF n = 0 THEN b
    ELSE LET prev == SetVarPipAll(b, kind, crds, n - 1, i, wf, wt, cs)
         IN  Tile_set_var_pip(prev, crds[n], i,
                 SiblingPipSpeed(prev.part.tiles[crds[n]], prev.part.tile_kinds[kind],
                                 wf, wt, cs))

\* one pip of the tile, where a pip the kind does not have yet is left out
MergePip_known_only(m, kind, p) ==
    LET tk == m.b.part.tile_kinds[kind]
        k == <<p.wf, p.wt>>
    IN  IF k \notin DOMAIN tk.pips THEN m
        ELSE IF PipFlags(tk.pips[k]) # PipFlags(p)
        THEN [m EXCEPT !.b = Panic(@, "pip flags mismatch")]
        ELSE IF tk.pips[k].mode.tag = "Const" THEN
            IF tk.pips[k].mode.v # p.s THEN
                LET i == Len(tk.var_pips)
                    pushed == [m.b EXCEPT !.part.tile_kinds[kind].var_pips = Append(@, k)]
                    spread == SetVarPipAll(pushed, kind, tk.tiles, Len(tk.tiles),
                                           i, p.wf, p.wt, tk.pips[k].mode.v)
                IN  [m EXCEPT
                        !.b = [spread EXCEPT
                                  !.part.tile_kinds[kind].pips[k].mode = Variable(i)],
                        !.var_pips = VecSet(@, i, p.s, SpeedIdx_NONE)]
            ELSE m
        ELSE [m EXCEPT !.var_pips = VecSet(@, tk.pips[k].mode.v, p.s, SpeedIdx_NONE)]

\* a merge of one pip that keeps what is recorded for a known key, without
\* a look at the flags
MergePip_keep(m, kind, p) ==
    IF <<p.wf, p.wt>> \notin DOMAIN m.b.part.tile_kinds[kind].pips
    THEN [m EXCEPT !.b.part.tile_kinds[kind].pips =
                       MapInsert(@, <<p.wf, p.wt>>, TkPip(p, Const(p.s)))]
    ELSE m

\* one pip of the tile
MergePip(m, kind, p) ==
    LET tk == m.b.part.tile_kinds[kind]
        k == <<p.wf, p.wt>>
    IN  IF k \notin DOMAIN tk.pips
        THEN [m EXCEPT
                 !.b.part.tile_kinds[kind].pips = MapInsert(@, k, TkPip(p, Const(p.s)))]
        ELSE IF PipFlags(tk.pips[k]) # PipFlags(p)
        THEN [m EXCEPT !.b = Panic(@, "pip flags mismatch")]
        ELSE IF tk.pips[k].mode.tag = "Const" THEN
            IF tk.pips[k].mode.v # p.s THEN
                LET i == Len(tk.var_pips)
                    pushed == [m.b EXCEPT !.part.tile_kinds[kind].var_pips = Append(@, k)]
                    spread == SetVarPipAll(pushed, kind, tk.tiles, Len(tk.tiles),
                                           i, p.wf, p.wt, tk.pips[k].mode.v)
                IN  [m EXCEPT
                        !.b = [spread EXCEPT
                                  !.part.tile_kinds[kind].pips[k].mode = Variable(i)],
                        !.var_pips = VecSet(@, i, p.s, SpeedIdx_NONE)]
            ELSE m
        ELSE [m EXCEPT !.var_pips = VecSet(@, tk.pips[k].mode.v, p.s, SpeedIdx_NONE)]

RECURSIVE MergePips(_, _, _, _)
MergePips(m, kind, pips, n) ==
    IF n = 0 THEN m
    ELSE LET prev == MergePips(m, kind, pips, n - 1)
         IN  IF prev.b.err # OK THEN prev ELSE MergePip(prev, kind, pips[n])

\* ------------------------------------------------------------------------
\* add_tile on a new kind
\* ------------------------------------------------------------------------
\* a wire table of a new kind that drops the reported speeds
WireMap_unknown(wires, n) ==
    [w \in {wires[i].n : i \in 1..n} |-> Internal(SpeedIdx_UNKNOWN)]

RECURSIVE WireMap(_, _)
WireMap(wires, n) ==
    IF n = 0 THEN EmptyMap
    ELSE MapInsert(WireMap(wires, n - 1), wires[n].n, Internal(wires[n].s))

RECURSIVE PipMap(_, _)
PipMap(pips, n) ==
    IF n = 0 THEN EmptyMap
    ELSE MapInsert(PipMap(pips, n - 1), <<pips[n].wf, pips[n].wt>>,
                   TkPip(pips[n], Const(pips[n].s)))

NewTileKind(coord, sites_raw, wires, pips) ==
    [sites |-> [i \in 1..Len(sites_raw) |-> TkSite(sites_raw[i])],
     sites_by_slot |-> [s \in {sites_raw[i].slot : i \in 1..Len(sites_raw)} |->
                           (CHOOSE i \in 1..Len(sites_raw) :
                                /\ sites_raw[i].slot = s
                                /\ \A j \in (i + 1)..Len(sites_raw) :
                                       sites_raw[j].slot # s) - 1],
     wires |-> WireMap(wires, Len(wires)),
     conn_wires |-> <<>>,
     pips |-> PipMap(pips, Len(pips)),
     var_pips |-> <<>>,
     tiles |-> <<coord>>]

\* ------------------------------------------------------------------------
\* add_tile
\* ------------------------------------------------------------------------
\* the lists of add_tile resolved to handles, after slotify returned sl:
\* a = [b, wires, pips, sites_raw]
ResolveSlots(wires, pips, sl, sites) ==
    IF sl.b.err # OK THEN [b |-> sl.b, wires |-> wires, pips |-> pips, sites_raw |-> <<>>]
    ELSE LET rs == ResolveSites(sl.b, sl.res, sites, Len(sites))
         IN  [b |-> rs.b, wires |-> wires, pips |-> pips, sites_raw |-> rs.out]

ResolveTile(b0, sites, wires, pips) ==
    LET rw == ResolveWires(b0, wires, Len(wires))
        rp == ResolvePips(rw.b, pips, Len(pips))
    IN  ResolveSlots(rw.out, rp.out, slotify(rp.b, sites), sites)

\* add_tile from line 432 on, with the resolved lists a
AddResolvedTile(a, coord, name, kind) ==
    IF a.b.err # OK THEN a.b
    ELSE
    LET m == IF kind \in DOMAIN a.b.part.tile_kinds THEN
                 LET m3 == MergePips(
                               MergeWires(
                                   MergeSites([b |-> a.b, sites |-> <<>>,
                                               conn_wires |-> <<>>, var_pips |-> <<>>],
                                              kind, a.sites_raw, Len(a.sites_raw)),
                                   kind, a.wires, Len(a.wires)),
                               kind, a.pips, Len(a.pips))
                 IN  IF m3.b.err # OK THEN m3
                     ELSE [m3 EXCEPT !.b.part.tile_kinds[kind].tiles = Append(@, coord)]
             ELSE
                 [b |-> [a.b EXCEPT !.part.tile_kinds =
                            MapInsert(@, kind,
                                NewTileKind(coord, a.sites_raw, a.wires, a.pips))],
                  sites |-> [i \in 1..Len(a.sites_raw) |-> Some(a.sites_raw[i].name)],
                  conn_wires |-> <<>>,
                  var_pips |-> <<>>]
    IN  IF m.b.err # OK THEN m.b
        ELSE [m.b EXCEPT
                !.part.tiles = MapInsert(@, coord,
                    [name |-> name, kind |-> kind, sites |-> m.sites,
                     conn_wires |-> m.conn_wires, var_pips |-> m.var_pips]),
                !.tiles_by_name = MapInsert(@, name, coord)]

\* add_tile without the assertion on coord.y
add_tile_x_only(b0, coord, name, kind, sites, wires, pips) ==
    IF b0.err # OK THEN b0
    ELSE IF ~(coord.x < b0.part.width) THEN Panic(b0, "assertion failed")
    ELSE AddResolvedTile(ResolveTile(b0, sites, wires, pips), coord, name, kind)

add_tile(b0, coord, name, kind, sites, wires, pips) ==
    IF b0.err # OK THEN b0
    ELSE IF ~(coord.x < b0.part.width) \/ ~(coord.y < b0.part.height)
    THEN Panic(b0, "assertion failed")
    ELSE AddResolvedTile(ResolveTile(b0, sites, wires, pips), coord, name, kind)

\* ------------------------------------------------------------------------
\* add_node
\* ------------------------------------------------------------------------
\* the derived Ord of TkNodeTemplateWire: delta (x, then y), wire, speed
TwKey(t) == <<t.delta.x, t.delta.y, t.wire, t.speed>>

RECURSIVE LexLess(_, _)
LexLess(a, b) ==
    IF a = <<>> THEN FALSE
    ELSE IF a[1] # b[1] THEN a[1] < b[1]
    ELSE LexLess(Tail(a), Tail(b))

TwLess(a, b) == LexLess(TwKey(a), TwKey(b))

\* insert t into the sorted sequence s
RECURSIVE SortedInsert(_, _)
SortedInsert(s, t) ==
    IF s = <<>> THEN <<t>>
    ELSE IF TwLess(t, s[1]) THEN <<t>> \o s
    ELSE <<s[1]>> \o SortedInsert(Tail(s), t)

\* the template wires left in the order of the endpoint list
Sort_skipped(s) == s

\* twires.sort()
RECURSIVE Sort(_)
Sort(s) == IF s = <<>> THEN <<>> ELSE SortedInsert(Sort(Tail(s)), s[1])

\* wires.iter().map(|(t, w, s)| (tiles_by_name[t], wire_to_idx(w),
\* speed_to_idx(s))), first n
RECURSIVE ResolveEndpoints(_, _, _)
ResolveEndpoints(b, eps, n) ==
    IF n = 0 THEN [b |-> b, out |-> <<>>]
    ELSE LET prev == ResolveEndpoints(b, eps, n - 1)
             e == eps[n]
         IN  IF prev.b.err # OK THEN prev
             ELSE IF e.tile \notin DOMAIN prev.b.tiles_by_name
             THEN [prev EXCEPT !.b = Panic(@, "unwrap on None")]
             ELSE LET w == wire_to_idx(prev.b, e.wire)
                      sp == speed_to_idx(w.b, e.speed)
                  IN  [b |-> sp.b,
                       out |-> Append(prev.out,
                           [coord |-> prev.b.tiles_by_name[e.tile], wire |-> w.i,
                            speed |-> sp.i])]

\* a template that keeps the absolute coordinates of the endpoints
Twires_absolute(wires, bx, by) ==
    [i \in 1..Len(wires) |->
        [delta |-> wires[i].coord, wire |-> wires[i].wire, speed |-> wires[i].speed]]

\* the template of a resolved endpoint list, before sorting
Twires(wires, bx, by) ==
    [i \in 1..Len(wires) |->
        [delta |-> [x |-> wires[i].coord.x - bx, y |-> wires[i].coord.y - by],
         wire |-> wires[i].wire, speed |-> wires[i].speed]]

\* a last loop that stores the node first and marks the kind's tiles PENDING
\* afterwards, the endpoint's own tile included
AssignEndpoint_pending_last(b, e, node) ==
    LET kind == b.part.tiles[e.coord].kind
        tk == b.part.tile_kinds[kind]
    IN  IF e.wire \notin DOMAIN tk.wires THEN Panic(b, "unwrap on None")
        ELSE IF tk.wires[e.wire].tag = "Internal" THEN
            LET i == Len(tk.conn_wires)
                b1 == [b EXCEPT
                          !.part.tile_kinds[kind].wires[e.wire] = Connected(i),
                          !.part.tile_kinds[kind].conn_wires = Append(@, e.wire)]
            IN  SetConnWireAll(Tile_set_conn_wire(b1, e.coord, i, node),
                               tk.tiles, Len(tk.tiles), i, NodeIdx_PENDING)
        ELSE Tile_set_conn_wire(b, e.coord, tk.wires[e.wire].v, node)

\* one endpoint in the last loop of add_node
AssignEndpoint(b, e, node) ==
    LET kind == b.part.tiles[e.coord].kind
        tk == b.part.tile_kinds[kind]
    IN  IF e.wire \notin DOMAIN tk.wires THEN Panic(b, "unwrap on None")
        ELSE IF tk.wires[e.wire].tag = "Internal" THEN
            LET i == Len(tk.conn_wires)
                b1 == [b EXCEPT
                          !.part.tile_kinds[kind].wires[e.wire] = Connected(i),
                          !.part.tile_kinds[kind].conn_wires = Append(@, e.wire)]
                b2 == SetConnWireAll(b1, tk.tiles, Len(tk.tiles), i, NodeIdx_PENDING)
            IN  Tile_set_conn_wire(b2, e.coord, i, node)
        ELSE Tile_set_conn_wire(b, e.coord, tk.wires[e.wire].v, node)

\* a last loop that assigns the node to the first endpoint only
AssignNode_first(b, wires, n, node) ==
    IF n = 0 THEN b ELSE AssignEndpoint(b, wires[1], node)

RECURSIVE AssignNode(_, _, _, _)
AssignNode(b, wires, n, node) ==
    IF n = 0 THEN b
    ELSE LET prev == AssignNode(b, wires, n - 1, node)
         IN  IF prev.err # OK THEN prev ELSE AssignEndpoint(prev, wires[n], node)

\* an early return that looks at the wire's state only, not at its speed
FastPath_any_speed(b, wires) ==
    /\ Len(wires) = 1
    /\ LET tk == b.part.tile_kinds[b.part.tiles[wires[1].coord].kind]
       IN  tk.wires[wires[1].wire].tag = "Internal"

\* whether add_node returns early: one endpoint, on a wire that is Internal
\* with the endpoint's speed
FastPath(b, wires) ==
    /\ Len(wires) = 1
    /\ LET tk == b.part.tile_kinds[b.part.tiles[wires[1].coord].kind]
       IN  tk.wires[wires[1].wire] = Internal(wires[1].speed)

\* add_node from line 610 on, with the resolved endpoint list wires
AddResolvedNode(b, wires) ==
    IF b.err # OK THEN b
    ELSE IF Len(wires) = 1
            /\ wires[1].wire \notin
                 DOMAIN b.part.tile_kinds[b.part.tiles[wires[1].coord].kind].wires
    THEN Panic(b, "unwrap on None")
    ELSE IF FastPath(b, wires) THEN b
    ELSE IF Len(wires) = 0 THEN Panic(b, "unwrap on None")
    ELSE
    LET bx == Min({wires[i].coord.x : i \in 1..Len(wires)})
        by == Min({wires[i].coord.y : i \in 1..Len(wires)})
        template == [wires |-> Sort(Twires(wires, bx, by))]
        known == template \in DOMAIN b.templates_idx
        tidx == IF known THEN b.templates_idx[template]
                ELSE TemplateIdx(Len(b.part.templates))
        b1 == IF known THEN b
              ELSE IF tidx = -1 THEN Panic(b, "out of templates")
              ELSE [b EXCEPT !.part.templates = Append(@, template),
                             !.templates_idx = MapInsert(@, template, tidx)]
        node == NodeIdx_from_raw(Len(b.part.nodes))
        b2 == IF b1.err # OK THEN b1
              ELSE IF node = -1 THEN Panic(b1, "assertion failed")
              ELSE [b1 EXCEPT !.part.nodes =
                       Append(@, [base |-> [x |-> bx, y |-> by], template |-> tidx])]
    IN  AssignNode(b2, wires, Len(wires), node)

\* the endpoint list resolved to handles, then the rest of add_node
AddResolvedEndpoints(r) == AddResolvedNode(r.b, r.out)

add_node(b0, eps) ==
    IF b0.err # OK THEN b0
    ELSE AddResolvedEndpoints(ResolveEndpoints(b0, eps, Len(eps)))

\* ------------------------------------------------------------------------
\* finish, to_file, from_file
\* ------------------------------------------------------------------------
finish(b) == b.part

\* What to_file writes: every field of the Part but the tiles' conn_wires,
\* which serde skips.
Serialize(p) ==
    [p EXCEPT !.tiles = [c \in DOMAIN p.tiles |->
        [name |-> p.tiles[c].name, kind |-> p.tiles[c].kind,
         sites |-> p.tiles[c].sites, var_pips |-> p.tiles[c].var_pips]]]

\* a reader that took var_pips for a skipped field as well
Deserialize_skip_var_pips(f) ==
    [f EXCEPT !.tiles = [c \in DOMAIN f.tiles |->
        [name |-> f.tiles[c].name, kind |-> f.tiles[c].kind,
         sites |-> f.tiles[c].sites, conn_wires |-> <<>>, var_pips |-> <<>>]]]

\* What bincode reads back: a skipped field gets its Default, an empty Vec.
Deserialize(f) ==
    [f EXCEPT !.tiles = [c \in DOMAIN f.tiles |->
        [name |-> f.tiles[c].name, kind |-> f.tiles[c].kind,
         sites |-> f.tiles[c].sites, conn_wires |-> <<>>,
         var_pips |-> f.tiles[c].var_pips]]]

\* the inner loop of post_deserialize over the first n wires of a template;
\* l is a record [part, err]
RECURSIVE PostDeserializeNode(_, _, _, _)
PostDeserializeNode(l, i, tw, n) ==
    IF n = 0 THEN l
    ELSE LET prev == PostDeserializeNode(l, i, tw, n - 1)
             node == prev.part.nodes[i + 1]
             w == tw[n]
             coord == [x |-> node.base.x + w.delta.x, y |-> node.base.y + w.delta.y]
         IN  IF prev.err # OK THEN prev
             ELSE IF coord \notin DOMAIN prev.part.tiles THEN Panic(prev, "unwrap on None")
             ELSE LET tk == prev.part.tile_kinds[prev.part.tiles[coord].kind] IN
                  IF w.wire \notin DOMAIN tk.wires THEN Panic(prev, "unwrap on None")
                  ELSE IF tk.wires[w.wire].tag = "Internal"
                  THEN Panic(prev, "node on internal wire")
                  ELSE Tile_set_conn_wire(prev, coord, tk.wires[w.wire].v, i)

\* the outer loop of post_deserialize over the first n nodes
RECURSIVE PostDeserializeLoop(_, _)
PostDeserializeLoop(l, n) ==
    IF n = 0 THEN l
    ELSE LET prev == PostDeserializeLoop(l, n - 1)
             tw == prev.part.templates[prev.part.nodes[n].template + 1].wires
         IN  PostDeserializeNode(prev, n - 1, tw, Len(tw))

post_deserialize(p) == PostDeserializeLoop([part |-> p, err |-> OK], Len(p.nodes))

from_file(f) == post_deserialize(Deserialize(f))

\* ------------------------------------------------------------------------
\* State
\* ------------------------------------------------------------------------
VARIABLES
    part,                 \* PartBuilder.part
    tiles_by_name,        \* PartBuilder.tiles_by_name
    speeds_by_name,       \* PartBuilder.speeds_by_name
    templates_idx,        \* PartBuilder.templates_idx
    wires_by_name,        \* PartBuilder.wires_by_name
    slot_kinds_by_name,   \* PartBuilder.slot_kinds_by_name
    overflow_checks,      \* whether the build traps on arithmetic overflow
    err,                  \* the panic that ended the build, OK while none did
    finished,             \* finish() was called: the builder is consumed
    file,                 \* <<>> or <<the Part as to_file wrote it>>
    loaded,               \* <<>> or <<the result of from_file>>
    reported,             \* history: coord -> the arguments add_tile got there
    node_eps,             \* history: per entry of part.nodes, add_node's argument
    last,                 \* history: the last call that returned
    batch                 \* the batch dump: the files, the tasks and main

builder_vars == <<part, tiles_by_name, speeds_by_name, templates_idx, wires_by_name,
                  slot_kinds_by_name>>
vars == <<part, tiles_by_name, speeds_by_name, templates_idx, wires_by_name,
          slot_kinds_by_name, overflow_checks, err, finished, file, loaded,
          reported, node_eps, last, batch>>

\* the variables of the part builder and its round trip
core_vars == <<builder_vars, overflow_checks, err, finished, file, loaded, reported,
               node_eps, last>>

\* no batch dump is running
NoBatch == [run |-> "none"]

\* the builder as the record the operators work on
Builder ==
    [part |-> part, tiles_by_name |-> tiles_by_name, speeds_by_name |-> speeds_by_name,
     templates_idx |-> templates_idx, wires_by_name |-> wires_by_name,
     slot_kinds_by_name |-> slot_kinds_by_name, err |-> err,
     overflow_checks |-> overflow_checks]

SetBuilder(b) ==
    /\ part' = b.part
    /\ tiles_by_name' = b.tiles_by_name
    /\ speeds_by_name' = b.speeds_by_name
    /\ templates_idx' = b.templates_idx
    /\ wires_by_name' = b.wires_by_name
    /\ slot_kinds_by_name' = b.slot_kinds_by_name

\* PartBuilder::new
NewPart(name, family, source, width, height) ==
    [part |-> name, family |-> family, source |-> source, width |-> width,
     height |-> height, tile_kinds |-> EmptyMap, tiles |-> EmptyMap, speeds |-> <<>>,
     nodes |-> <<>>, templates |-> <<>>, wires |-> <<>>, slot_kinds |-> <<>>,
     packages |-> EmptyMap, combos |-> <<>>]

\* ------------------------------------------------------------------------
\* Bounds and inputs
\* ------------------------------------------------------------------------
Width == 2
Height == 1
MaxTiles == 2
MaxNodes == 2
MaxEndpoints == 2

WA == <<"A">>
WB == <<"B">>
S1 == <<"s", "1">>
S2 == <<"s", "2">>
KT == <<"T">>

\* the name the toolchain gives the tile at a coordinate
TileName(c) == <<"t", Digits[c.x + 1], Digits[c.y + 1]>>

\* sequences over S of length at most n
RECURSIVE SeqsUpTo(_, _)
SeqsUpTo(S, n) ==
    IF n = 0 THEN {<<>>}
    ELSE LET shorter == SeqsUpTo(S, n - 1)
         IN  shorter \cup {Append(q, x) : q \in shorter, x \in S}

TileInput(sites, wires, pips) == [sites |-> sites, wires |-> wires, pips |-> pips]

\* a wire list: wire A with one of the speeds sa or absent (sa = <<>>),
\* then wire B likewise
WireList(sa, sb) ==
    (IF sa = <<>> THEN <<>> ELSE <<[name |-> WA, speed |-> sa[1]]>>)
    \o (IF sb = <<>> THEN <<>> ELSE <<[name |-> WB, speed |-> sb[1]]>>)

\* the toolchain's tile snapshots of Spec: wire A absent, without a speed or
\* with speed s1, and wire B with speed s1; or wire A alone
TileInputs ==
    {TileInput(<<>>, WireList(sa, <<Some(S1)>>), <<>>) :
        sa \in {<<>>, <<None>>, <<Some(S1)>>}}
    \cup {TileInput(<<>>, WireList(<<Some(S1)>>, <<>>), <<>>)}

\* the coordinates add_tile is called with: those of the Part, and those
\* just outside it
CoordInputs == [x : 0..Width, y : 0..Height]

\* the endpoint lists add_node is called with, over the tiles added so far
NodeInputs ==
    SeqsUpTo([tile : DOMAIN tiles_by_name, wire : {WA, WB}, speed : {None, Some(S1)}],
             MaxEndpoints) \ {<<>>}

\* ------------------------------------------------------------------------
\* Init and the actions
\* ------------------------------------------------------------------------
Init ==
    /\ part = NewPart(<<"p">>, Family.virtex7, "ISE", Width, Height)
    /\ tiles_by_name = EmptyMap
    /\ speeds_by_name = EmptyMap
    /\ templates_idx = EmptyMap
    /\ wires_by_name = EmptyMap
    /\ slot_kinds_by_name = EmptyMap
    /\ overflow_checks = TRUE
    /\ err = OK
    /\ finished = FALSE
    /\ file = <<>>
    /\ loaded = <<>>
    /\ reported = EmptyMap
    /\ node_eps = <<>>
    /\ last = <<"new">>
    /\ batch = NoBatch

Building == ~finished /\ err = OK

\* one call of add_tile
AddTileCall(coord, kind, inp) ==
    /\ Building
    /\ LET r == add_tile(Builder, coord, TileName(coord), kind, inp.sites, inp.wires,
                         inp.pips)
       IN  IF r.err = OK
           THEN /\ SetBuilder(r)
                /\ reported' = MapInsert(reported, coord, [kind |-> kind, inp |-> inp])
                /\ last' = <<"add_tile", coord, kind, inp>>
                /\ UNCHANGED <<batch, overflow_checks, err, finished, file, loaded, node_eps>>
           ELSE /\ err' = r.err
                /\ UNCHANGED <<batch, builder_vars, overflow_checks, finished, file, loaded,
                               reported, node_eps, last>>

\* one call of add_node
AddNodeCall(eps) ==
    /\ Building
    /\ LET r == add_node(Builder, eps)
       IN  IF r.err = OK
           THEN /\ SetBuilder(r)
                /\ node_eps' = IF Len(r.part.nodes) > Len(part.nodes)
                               THEN Append(node_eps, eps) ELSE node_eps
                /\ last' = <<"add_node", eps>>
                /\ UNCHANGED <<batch, overflow_checks, err, finished, file, loaded, reported>>
           ELSE /\ err' = r.err
                /\ UNCHANGED <<batch, builder_vars, overflow_checks, finished, file, loaded,
                               reported, node_eps, last>>

\* the toolchain presents a tile not presented before
AddTile ==
    \E coord \in CoordInputs, inp \in TileInputs :
        /\ coord \notin DOMAIN part.tiles
        /\ Cardinality(DOMAIN part.tiles) < MaxTiles
        /\ AddTileCall(coord, KT, inp)

AddNode ==
    \E eps \in NodeInputs :
        /\ Len(part.nodes) < MaxNodes
        /\ AddNodeCall(eps)

\* finish() followed by to_file(), as the dump programs do
Finish ==
    /\ Building
    /\ finished' = TRUE
    /\ file' = <<Serialize(finish(Builder))>>
    /\ last' = <<"finish">>
    /\ UNCHANGED <<batch, builder_vars, overflow_checks, err, loaded, reported, node_eps>>

FromFile ==
    /\ file # <<>>
    /\ loaded = <<>>
    /\ err = OK
    /\ LET l == from_file(file[1])
       IN  IF l.err = OK
           THEN /\ loaded' = <<l.part>>
                /\ last' = <<"from_file">>
                /\ UNCHANGED <<batch, builder_vars, overflow_checks, err, finished, file,
                               reported, node_eps>>
           ELSE /\ err' = l.err
                /\ UNCHANGED <<batch, builder_vars, overflow_checks, finished, file, loaded,
                               reported, node_eps, last>>

Next == AddTile \/ AddNode \/ Finish \/ FromFile

Spec == Init /\ [][Next]_vars

\* ------------------------------------------------------------------------
\* The merge of tiles into one kind: a row of tiles of kind T, presented
\* from left to right, each with or without a site, the wires A and B and
\* the pip A -> B.
\* ------------------------------------------------------------------------
MaxRowTiles == 3

SiteName == <<"S", "_", "X", "0", "Y", "0">>

\* a site list: no site (pw = <<>>), or the one site with its pin I on the
\* wire pw[1]
SiteList(pw) ==
    IF pw = <<>> THEN <<>>
    ELSE <<[name |-> SiteName, kind |-> SiteKind.SLICE,
            pins |-> <<[name |-> PinName.I, dir |-> "Input", wire |-> pw[1],
                        speed |-> Some(S1)]>>]>>

\* a pip list: no pip (sp = <<>>), or the pip A -> B with the speed sp[1]
PipList(sp) ==
    IF sp = <<>> THEN <<>>
    ELSE <<[wf |-> WA, wt |-> WB, is_buf |-> FALSE, is_excluded |-> FALSE,
            is_test |-> FALSE, inversion |-> "Never", direction |-> "Uni",
            speed |-> sp[1]]>>

\* the toolchain's tile snapshots of SpecT; a tile lists a pip only with
\* both of its wires, and lists a wire, a pip or a site at most once
TileInputsT ==
    {TileInput(SiteList(v[1]), WireList(v[2], v[3]), PipList(v[4])) :
        v \in {u \in {<<>>, <<None>>, <<Some(WB)>>}
                     \X {<<>>, <<Some(S1)>>, <<Some(S2)>>}
                     \X {<<>>, <<Some(S1)>>}
                     \X {<<>>, <<Some(S1)>>, <<Some(S2)>>} :
                  u[4] # <<>> => (u[2] # <<>> /\ u[3] # <<>>)}}

\* PartBuilder::new, as the record the operators work on
PartBuilder_new(name, family, source, width, height, checks) ==
    [part |-> NewPart(name, family, source, width, height),
     tiles_by_name |-> EmptyMap, speeds_by_name |-> EmptyMap,
     templates_idx |-> EmptyMap, wires_by_name |-> EmptyMap,
     slot_kinds_by_name |-> EmptyMap, err |-> OK, overflow_checks |-> checks]

NewRowBuilder == PartBuilder_new(<<"p">>, Family.virtex7, "ISE", MaxRowTiles, 1, TRUE)

InitT ==
    /\ part = NewRowBuilder.part
    /\ tiles_by_name = NewRowBuilder.tiles_by_name
    /\ speeds_by_name = NewRowBuilder.speeds_by_name
    /\ templates_idx = NewRowBuilder.templates_idx
    /\ wires_by_name = NewRowBuilder.wires_by_name
    /\ slot_kinds_by_name = NewRowBuilder.slot_kinds_by_name
    /\ overflow_checks = NewRowBuilder.overflow_checks
    /\ err = OK
    /\ finished = FALSE
    /\ file = <<>>
    /\ loaded = <<>>
    /\ reported = EmptyMap
    /\ node_eps = <<>>
    /\ last = <<"new">>
    /\ batch = NoBatch

\* the toolchain presents the next tile of a row of at most max tiles
AddTileRow(max) ==
    \E inp \in TileInputsT :
        /\ Cardinality(DOMAIN part.tiles) < max
        /\ AddTileCall([x |-> Cardinality(DOMAIN part.tiles), y |-> 0], KT, inp)

AddTileT == AddTileRow(MaxRowTiles)

NextT == AddTileT

SpecT == InitT /\ [][NextT]_vars

\* ------------------------------------------------------------------------
\* The same row, where the call just made may be made once more with the
\* same arguments.
\* ------------------------------------------------------------------------
MaxDupTiles == 2

AddTileD == AddTileRow(MaxDupTiles)

\* add_tile called again with the arguments of the call that just returned
ReAddTile ==
    /\ Building
    /\ last[1] = "add_tile"
    /\ LET r == add_tile(Builder, last[2], TileName(last[2]), last[3], last[4].sites,
                         last[4].wires, last[4].pips)
       IN  IF r.err = OK
           THEN /\ SetBuilder(r)
                /\ last' = <<"add_tile_again", last[2], last[3], last[4]>>
                /\ UNCHANGED <<batch, overflow_checks, err, finished, file, loaded, reported,
                               node_eps>>
           ELSE /\ err' = r.err
                /\ UNCHANGED <<batch, builder_vars, overflow_checks, finished, file, loaded,
                               reported, node_eps, last>>

NextDup == AddTileD \/ ReAddTile

SpecDup == InitT /\ [][NextDup]_vars

\* ------------------------------------------------------------------------
\* The merge of tiles that disagree: a row of tiles of kind T whose site,
\* pin and pip may differ from what the kind already records, and nodes on
\* the wires of the row.
\* ------------------------------------------------------------------------
MaxMergeTiles == 2
MaxMergeNodes == 1

\* the site S_X0Y0 with the kind string kind and its pin I on the wire pw
\* with the speed ps
SiteOf(kind, pw, ps) ==
    <<[name |-> SiteName, kind |-> kind,
       pins |-> <<[name |-> PinName.I, dir |-> "Input", wire |-> pw, speed |-> ps]>>]>>

\* the pip A -> B with speed s1 and the flags f
PipOf(f) ==
    <<[wf |-> WA, wt |-> WB, is_buf |-> f[1], is_excluded |-> f[2], is_test |-> f[3],
       inversion |-> f[4], direction |-> f[5], speed |-> Some(S1)]>>

\* the site lists of SpecM: no site; the site of kind SLICE with its pin on
\* no wire, on A or on B, with speed s1; the same on A without a speed or
\* with speed s2; the site with another kind string
SiteInputsM ==
    {<<>>}
    \cup {SiteOf(SiteKind.SLICE, pw, Some(S1)) : pw \in {None, Some(WA), Some(WB)}}
    \cup {SiteOf(SiteKind.SLICE, Some(WA), ps) : ps \in {None, Some(S2)}}
    \cup {SiteOf(SiteKind.IOB, Some(WA), Some(S1))}

\* the flags of a pip: one setting, and the five that differ from it in one
\* flag
FlagInputsM ==
    {<<FALSE, FALSE, FALSE, "Never", "Uni">>,
     <<TRUE, FALSE, FALSE, "Never", "Uni">>,
     <<FALSE, TRUE, FALSE, "Never", "Uni">>,
     <<FALSE, FALSE, TRUE, "Never", "Uni">>,
     <<FALSE, FALSE, FALSE, "Always", "Uni">>,
     <<FALSE, FALSE, FALSE, "Never", "BiFwd">>}

\* the toolchain's tile snapshots of SpecM: no wire, wire A, or the wires A
\* and B without a pip or with the pip A -> B
TileInputsM ==
    {TileInput(st, <<>>, <<>>) : st \in SiteInputsM}
    \cup {TileInput(st, WireList(<<Some(S1)>>, <<>>), <<>>) : st \in SiteInputsM}
    \cup {TileInput(st, WireList(<<Some(S1)>>, <<Some(S1)>>), <<>>) : st \in SiteInputsM}
    \cup {TileInput(st, WireList(<<Some(S1)>>, <<Some(S1)>>), PipOf(f)) :
             st \in SiteInputsM, f \in FlagInputsM}

\* the toolchain presents the next tile of the row
AddTileM ==
    \E inp \in TileInputsM :
        /\ Cardinality(DOMAIN part.tiles) < MaxMergeTiles
        /\ AddTileCall([x |-> Cardinality(DOMAIN part.tiles), y |-> 0], KT, inp)

\* the endpoint lists of SpecM: one wire of one tile of the row
NodeInputsM ==
    {<<e>> : e \in [tile : DOMAIN tiles_by_name, wire : {WA, WB},
                     speed : {None, Some(S1)}]}

AddNodeM ==
    \E eps \in NodeInputsM :
        /\ Len(part.nodes) < MaxMergeNodes
        /\ AddNodeCall(eps)

NextM == AddTileM \/ AddNodeM

SpecM == InitT /\ [][NextM]_vars

\* ------------------------------------------------------------------------
\* The classifier: a row of tiles of kind T with up to two sites each, for a
\* Part of a family with the coordinate rule (virtex7) or with rules by
\* kind and pin (virtex).
\* ------------------------------------------------------------------------
MaxSlotTiles == 2

\* a site with one pin: its name, its kind string, the pin and the pin's
\* wire
SiteS(name, kind, pin, wire) ==
    [name |-> name, kind |-> kind,
     pins |-> <<[name |-> pin, dir |-> "Input", wire |-> Some(wire), speed |-> None]>>]

\* the names with a coordinate suffix: base S at five places of a 3 x 2
\* grid and one place 256 columns away, and base R
XyNamesS ==
    {<<"S", "_", "X", "0", "Y", "0">>, <<"S", "_", "X", "1", "Y", "0">>,
     <<"S", "_", "X", "0", "Y", "1">>, <<"S", "_", "X", "1", "Y", "1">>,
     <<"S", "_", "X", "2", "Y", "1">>, <<"S", "_", "X", "2", "5", "6", "Y", "0">>,
     <<"R", "_", "X", "1", "Y", "1">>}

\* the sites of SpecS: those with a coordinate suffix, and the name D as a
\* SLICE with its CIN pin on W0 or on W1 and as a TBUF
SitePoolS ==
    {SiteS(n, SiteKind.SLICE, PinName.CIN, <<"W", "0">>) : n \in XyNamesS}
    \cup {SiteS(<<"D">>, SiteKind.SLICE, PinName.CIN, <<"W", d>>) : d \in {"0", "1"}}
    \cup {SiteS(<<"D">>, SiteKind.TBUF, PinName.O, <<"W", "0">>)}

\* the toolchain's tile snapshots of SpecS: one or two sites, no wire list
TileInputsS == {TileInput(st, <<>>, <<>>) : st \in SeqsUpTo(SitePoolS, 2) \ {<<>>}}

InitS ==
    /\ \E f \in {Family.virtex7, Family.virtex} :
           part = NewPart(<<"p">>, f, "ISE", MaxRowTiles, 1)
    /\ tiles_by_name = EmptyMap
    /\ speeds_by_name = EmptyMap
    /\ templates_idx = EmptyMap
    /\ wires_by_name = EmptyMap
    /\ slot_kinds_by_name = EmptyMap
    /\ overflow_checks = TRUE
    /\ err = OK
    /\ finished = FALSE
    /\ file = <<>>
    /\ loaded = <<>>
    /\ reported = EmptyMap
    /\ node_eps = <<>>
    /\ last = <<"new">>
    /\ batch = NoBatch

\* the toolchain presents the next tile of the row
AddTileS ==
    \E inp \in TileInputsS :
        /\ Cardinality(DOMAIN part.tiles) < MaxSlotTiles
        /\ AddTileCall([x |-> Cardinality(DOMAIN part.tiles), y |-> 0], KT, inp)

NextS == AddTileS

SpecS == InitS /\ [][NextS]_vars

\* ------------------------------------------------------------------------
\* The round trip: a row of tiles whose pips may differ in speed, a node,
\* then finish with to_file, then from_file.
\* ------------------------------------------------------------------------
NextR == AddTileD \/ AddNodeM \/ Finish \/ FromFile

SpecR == InitT /\ [][NextR]_vars

\* ------------------------------------------------------------------------
\* The limits of the handles: a tile with wires A and B and a node, and the
\* handle constructors called for tables of a length near 0, near u16::MAX
\* and near u32::MAX.
\* ------------------------------------------------------------------------
MaxCapTiles == 1
MaxCapOffset == 3

\* the table lengths the constructors are called for
CapacityInputs ==
    (0..MaxCapOffset)
    \cup {U16_MAX - d : d \in 0..MaxCapOffset}
    \cup {U16_MAX + d : d \in 1..MaxCapOffset}
    \cup {U32_MAX - d : d \in 0..MaxCapOffset}

\* the tile of SpecC: wires A and B, with or without a site
TileInputsC ==
    {TileInput(st, WireList(<<Some(S1)>>, <<Some(S1)>>), <<>>) :
        st \in {<<>>, SiteOf(SiteKind.SLICE, Some(WA), Some(S1))}}

AddTileC ==
    \E inp \in TileInputsC :
        /\ Cardinality(DOMAIN part.tiles) < MaxCapTiles
        /\ AddTileCall([x |-> Cardinality(DOMAIN part.tiles), y |-> 0], KT, inp)

\* a handle constructor called for a table of length i, with the handle r
\* it computed: a failed check is the builder's panic
FromRawCall(name, i, r) ==
    /\ Building
    /\ last' = <<name, i, r>>
    /\ err' = IF r = -1 THEN "assertion failed" ELSE err
    /\ UNCHANGED <<batch, builder_vars, overflow_checks, finished, file, loaded, reported,
                   node_eps>>

WireFromRaw == \E i \in CapacityInputs : FromRawCall("WireIdx::from_raw", i, WireIdx_from_raw(i))

SpeedFromRaw == \E i \in CapacityInputs : FromRawCall("SpeedIdx::from_raw", i, SpeedIdx_from_raw(i))

NodeFromRaw == \E i \in CapacityInputs : FromRawCall("NodeIdx::from_raw", i, NodeIdx_from_raw(i))

SlotKindFromLen == \E i \in CapacityInputs : FromRawCall("slot_kind", i, SlotKindIdx(i))

TemplateFromLen == \E i \in CapacityInputs : FromRawCall("template", i, TemplateIdx(i))

NextC ==
    \/ AddTileC
    \/ AddNodeM
    \/ WireFromRaw
    \/ SpeedFromRaw
    \/ NodeFromRaw
    \/ SlotKindFromLen
    \/ TemplateFromLen

SpecC == InitT /\ [][NextC]_vars

\* ------------------------------------------------------------------------
\* The batch dump (main of dump_ise_parts and of dump_vivado_parts): one
\* task per device, run by the thread pool in any interleaving.  A file is
\* absent, partial (created, its stream not finished) or complete.  The
\* calls into the toolchain, the file system and the codec succeed or fail
\* as the environment chooses.
\* ------------------------------------------------------------------------
MaxDevices == 2
MaxRuns == 2

\* the keys of the HashMap parts
Devices == 1..MaxDevices

DeviceName(d) == <<"d", Digits[d + 1]>>

\* pkgs[0].family of the device
DeviceFamily(d) == IF d % 2 = 1 THEN Family.virtex7 ELSE Family.virtex

\* fdir.join(part.clone() + ".zstd"), below the target directory
DevicePath(d) == <<DeviceFamily(d), DeviceName(d) \o <<".", "z", "s", "t", "d">>>>

\* the ends of a task that returned: Ok(()) after the dump, Ok(()) after
\* the skip, or an Err
Returned == {"done", "skipped", "failed"}

\* a caller that took the first failure for the end of the run
Collected_first_error(pc) == \E d \in DOMAIN pc : pc[d] \in {"failed"}

\* collect::<Vec<_>>() has a result for every task
Collected(pc) == \A d \in DOMAIN pc : pc[d] \in Returned

\* a check that finds no file
PathExists_never(disk, path) == FALSE

\* path.exists()
PathExists(disk, path) == disk[path] # "absent"

\* main up to the parallel iteration, over the files that earlier runs left
BatchStart(disk, runs) ==
    [disk |-> disk,
     pc |-> [d \in Devices |-> "start"],
     seen |-> [d \in Devices |-> "none"],
     dumps |-> [d \in Devices |-> 0],
     writes |-> [d \in Devices |-> 0],
     cause |-> [d \in Devices |-> "none"],
     run |-> "running", error_of |-> 0, runs |-> runs, read |-> <<>>]

InitB ==
    /\ part = NewPart(<<"p">>, Family.virtex7, "ISE", MaxRowTiles, 1)
    /\ tiles_by_name = EmptyMap
    /\ speeds_by_name = EmptyMap
    /\ templates_idx = EmptyMap
    /\ wires_by_name = EmptyMap
    /\ slot_kinds_by_name = EmptyMap
    /\ overflow_checks = TRUE
    /\ err = OK
    /\ finished = FALSE
    /\ file = <<>>
    /\ loaded = <<>>
    /\ reported = EmptyMap
    /\ node_eps = <<>>
    /\ last = <<"new">>
    /\ \E disk \in [{DevicePath(d) : d \in Devices} -> {"absent", "complete"}] :
           batch = BatchStart(disk, 1)

\* a task ends with an error value or with a panic, at the call named
TaskFails(d, how, call) ==
    batch' = [batch EXCEPT !.pc[d] = how, !.cause[d] = call]

\* the head of the closure: create_dir_all(&fdir)?, then path.exists()
TaskBegin(d) ==
    /\ batch.run = "running"
    /\ batch.pc[d] = "start"
    /\ \/ TaskFails(d, "failed", "create_dir_all")
       \/ batch' = [batch EXCEPT
              !.seen[d] = batch.disk[DevicePath(d)],
              !.pc[d] = IF PathExists(batch.disk, DevicePath(d))
                        THEN "skipped" ELSE "dump"]
    /\ UNCHANGED core_vars

\* get_rawdump(&tc, &pkgs)?: the Part, an error or a panic of the builder
TaskDump(d) ==
    /\ batch.run = "running"
    /\ batch.pc[d] = "dump"
    /\ \/ batch' = [batch EXCEPT !.dumps[d] = @ + 1, !.pc[d] = "create"]
       \/ TaskFails(d, "failed", "get_rawdump")
       \/ TaskFails(d, "panicked", "get_rawdump")
    /\ UNCHANGED core_vars

\* to_file: File::create(path)?
ToFileCreate(d) ==
    /\ batch.run = "running"
    /\ batch.pc[d] = "create"
    /\ \/ batch' = [batch EXCEPT !.disk[DevicePath(d)] = "partial",
                                 !.writes[d] = @ + 1, !.pc[d] = "serialize"]
       \/ TaskFails(d, "failed", "File::create")
    /\ UNCHANGED core_vars

\* to_file: bincode::serialize_into(&mut xz, self).unwrap()
ToFileSerialize(d) ==
    /\ batch.run = "running"
    /\ batch.pc[d] = "serialize"
    /\ \/ batch' = [batch EXCEPT !.pc[d] = "finish"]
       \/ TaskFails(d, "panicked", "serialize_into")
    /\ UNCHANGED core_vars

\* to_file: xz.finish()?, and the Ok(()) of the closure
ToFileFinish(d) ==
    /\ batch.run = "running"
    /\ batch.pc[d] = "finish"
    /\ \/ batch' = [batch EXCEPT !.disk[DevicePath(d)] = "complete", !.pc[d] = "done"]
       \/ TaskFails(d, "failed", "finish")
    /\ UNCHANGED core_vars

\* the loop over the collected results: res? returns the first Err, the
\* error of the task of device error_of
MainReturn ==
    /\ batch.run = "running"
    /\ Collected(batch.pc)
    /\ \/ /\ \A d \in Devices : batch.pc[d] # "failed"
          /\ batch' = [batch EXCEPT !.run = "Ok"]
       \/ \E d \in Devices :
              /\ batch.pc[d] = "failed"
              /\ batch' = [batch EXCEPT !.run = "Err", !.error_of = d]
    /\ UNCHANGED core_vars

\* a panic of a task unwinds through the parallel iteration into main once
\* the tasks that were begun have returned; a task not yet begun may be
\* left out
MainPanics ==
    /\ batch.run = "running"
    /\ \E d \in Devices : batch.pc[d] = "panicked"
    /\ \A d \in Devices : batch.pc[d] \in Returned \cup {"panicked", "start"}
    /\ batch' = [batch EXCEPT !.run = "panic"]
    /\ UNCHANGED core_vars

\* a later run of the binary over the same target directory
StartRun ==
    /\ batch.run \notin {"running", "none"}
    /\ batch.runs < MaxRuns
    /\ batch' = BatchStart(batch.disk, batch.runs + 1)
    /\ UNCHANGED core_vars

\* what Part::from_file does with a file: File::open(path)? on a missing
\* file, the unwrap of deserialize_from on a stream that ends early
FromFileOutcome(content) ==
    IF content = "absent" THEN "Err"
    ELSE IF content = "partial" THEN "panic"
    ELSE "Ok"

\* a reader calls Part::from_file on a device's path between runs
ReadFile(d) ==
    /\ batch.run \notin {"running", "none"}
    /\ batch' = [batch EXCEPT !.read = <<d, FromFileOutcome(batch.disk[DevicePath(d)])>>]
    /\ UNCHANGED core_vars

NextB ==
    \/ \E d \in Devices : TaskBegin(d)
    \/ \E d \in Devices : TaskDump(d)
    \/ \E d \in Devices : ToFileCreate(d)
    \/ \E d \in Devices : ToFileSerialize(d)
    \/ \E d \in Devices : ToFileFinish(d)
    \/ MainReturn
    \/ MainPanics
    \/ StartRun
    \/ \E d \in Devices : ReadFile(d)

SpecB == InitB /\ [][NextB]_vars

\* ------------------------------------------------------------------------
\* Part names (src/xilinx/ise/partgen.rs).  A pattern is kept as its syntax
\* tree; matching tries the alternatives in the order of the pattern and
\* the longer repetition first, as the regex crate does for the captures of
\* a match.
\* ------------------------------------------------------------------------
Digit == Range(Digits)
Lower ==
    {"a", "b", "c", "d", "e", "f", "g", "h", "i", "j", "k", "l", "m",
     "n", "o", "p", "q", "r", "s", "t", "u", "v", "w", "x", "y", "z"}

\* [..], concatenation, a|b, x+, x?, x{n}, and a literal string
Ch(cs) == [cs |-> cs, t |-> "ch", xs |-> <<>>]
Cat(xs) == [cs |-> {}, t |-> "cat", xs |-> xs]
Alt(xs) == [cs |-> {}, t |-> "alt", xs |-> xs]
Plus(x) == [cs |-> {}, t |-> "plus", xs |-> <<x>>]
Opt(x) == Alt(<<x, Cat(<<>>)>>)
Rep(x, n) == Cat([i \in 1..n |-> x])
Lit(str) == Cat([i \in DOMAIN str |-> Ch({str[i]})])

\* The offsets at which a match of re that starts at offset i of s can end,
\* in the order in which the matcher prefers them.
RECURSIVE Ends(_, _, _)
RECURSIVE Through(_, _, _)
RECURSIVE CatEnds(_, _, _, _)
RECURSIVE AltEnds(_, _, _, _)
RECURSIVE PlusEnds(_, _, _, _)
Ends(re, s, i) ==
    IF re.t = "ch" THEN IF i < Len(s) /\ s[i + 1] \in re.cs THEN <<i + 1>> ELSE <<>>
    ELSE IF re.t = "cat" THEN CatEnds(re.xs, Len(re.xs), s, i)
    ELSE IF re.t = "alt" THEN AltEnds(re.xs, 1, s, i)
    ELSE PlusEnds(re, s, Ends(re.xs[1], s, i), i)

\* the ends of x started at each offset of from
Through(x, s, from) ==
    IF from = <<>> THEN <<>>
    ELSE Ends(x, s, Head(from)) \o Through(x, s, Tail(from))

\* the ends of the first k pieces of a concatenation
CatEnds(xs, k, s, i) ==
    IF k = 0 THEN <<i>> ELSE Through(xs[k], s, CatEnds(xs, k - 1, s, i))

\* the ends of the alternatives from the k-th on
AltEnds(xs, k, s, i) ==
    IF k > Len(xs) THEN <<>> ELSE Ends(xs[k], s, i) \o AltEnds(xs, k + 1, s, i)

\* a repetition, after one more round that started at i and may end at es:
\* another round is preferred to stopping
PlusEnds(re, s, es, i) ==
    IF es = <<>> THEN <<>>
    ELSE (IF Head(es) > i THEN Ends(re, s, Head(es)) ELSE <<>>)
         \o <<Head(es)>> \o PlusEnds(re, s, Tail(es), i)

PATTERNS ==
    <<
    [dev |-> Cat(<<Lit(<<"x">>), Ch({"c", "a"}), Lit(<<"9", "5">>), Plus(Ch(Digit)),
                 Opt(Alt(<<Lit(<<"x", "l">>), Lit(<<"x", "v">>)>>))>>),
     fam |-> <<"x", "c", "9", "5", "0", "0">>,
     pkg |-> Cat(<<Rep(Ch(Lower), 2), Plus(Ch(Digit))>>)],
    [dev |-> Cat(<<Lit(<<"x", "c", "r", "3">>), Plus(Ch(Digit)), Lit(<<"x", "l">>)>>),
     fam |-> <<"x", "p", "l", "a", "3">>,
     pkg |-> Cat(<<Rep(Ch(Lower), 2), Plus(Ch(Digit))>>)],
    [dev |-> Cat(<<Lit(<<"x">>), Ch({"c", "a"}), Lit(<<"2", "c">>), Plus(Ch(Digit)),
                 Opt(Lit(<<"a">>))>>),
     fam |-> <<"x", "b", "r">>,
     pkg |-> Cat(<<Rep(Ch(Lower), 2), Opt(Lit(<<"g">>)), Plus(Ch(Digit))>>)],
    [dev |-> Cat(<<Lit(<<"x", "c", "4", "0">>), Plus(Ch(Digit)), Ch({"e", "l"})>>),
     fam |-> <<"x", "c", "4", "0", "0", "0", "e">>,
     pkg |-> Cat(<<Rep(Ch(Lower), 2), Plus(Ch(Digit))>>)],
    [dev |-> Cat(<<Lit(<<"x", "c", "s">>), Plus(Ch(Digit))>>),
     fam |-> <<"x", "c", "4", "0", "0", "0", "e">>,
     pkg |-> Cat(<<Rep(Ch(Lower), 2), Plus(Ch(Digit))>>)],
    [dev |-> Cat(<<Lit(<<"x", "c", "4", "0">>), Plus(Ch(Digit)), Alt(<<Lit(<<"x", "l">>),
                 Lit(<<"e", "x">>)>>)>>),
     fam |-> <<"x", "c", "4", "0", "0", "0", "e", "x">>,
     pkg |-> Cat(<<Rep(Ch(Lower), 2), Plus(Ch(Digit))>>)],
    [dev |-> Cat(<<Lit(<<"x", "c", "4", "0">>), Plus(Ch(Digit)), Lit(<<"x", "l", "a">>)>>),
     fam |-> <<"x", "c", "4", "0", "0", "0", "x", "l", "a">>,
     pkg |-> Cat(<<Rep(Ch(Lower), 2), Plus(Ch(Digit))>>)],
    [dev |-> Cat(<<Lit(<<"x", "c", "4", "0">>), Plus(Ch(Digit)), Lit(<<"x", "v">>)>>),
     fam |-> <<"x", "c", "4", "0", "0", "0", "x", "v">>,
     pkg |-> Cat(<<Rep(Ch(Lower), 2), Plus(Ch(Digit))>>)],
    [dev |-> Cat(<<Lit(<<"x", "c", "s">>), Plus(Ch(Digit)), Lit(<<"x", "l">>)>>),
     fam |-> <<"s", "p", "a", "r", "t", "a", "n", "x", "l">>,
     pkg |-> Cat(<<Rep(Ch(Lower), 2), Plus(Ch(Digit))>>)],
    [dev |-> Cat(<<Lit(<<"x">>), Alt(<<Lit(<<"c", "v">>), Lit(<<"q", "v">>), Lit(<<"q", "v",
                 "r">>), Lit(<<"c", "2", "s">>)>>), Plus(Ch(Digit))>>),
     fam |-> <<"v", "i", "r", "t", "e", "x">>,
     pkg |-> Cat(<<Rep(Ch(Lower), 2), Plus(Ch(Digit))>>)],
    [dev |-> Cat(<<Lit(<<"x">>), Alt(<<Lit(<<"c", "v">>), Lit(<<"q", "v">>), Lit(<<"c", "2",
                 "s">>), Lit(<<"a", "2", "s">>)>>), Plus(Ch(Digit)), Lit(<<"e">>)>>),
     fam |-> <<"v", "i", "r", "t", "e", "x", "e">>,
     pkg |-> Cat(<<Rep(Ch(Lower), 2), Plus(Ch(Digit))>>)],
    [dev |-> Cat(<<Lit(<<"x">>), Alt(<<Lit(<<"c">>), Lit(<<"q">>), Lit(<<"q", "r">>)>>),
                 Lit(<<"2", "v">>), Plus(Ch(Digit))>>),
     fam |-> <<"v", "i", "r", "t", "e", "x", "2">>,
     pkg |-> Cat(<<Rep(Ch(Lower), 2), Plus(Ch(Digit))>>)],
    [dev |-> Cat(<<Lit(<<"x">>), Ch({"c", "q"}), Lit(<<"2", "v", "p">>), Opt(Lit(<<"x">>)),
                 Plus(Ch(Digit))>>),
     fam |-> <<"v", "i", "r", "t", "e", "x", "2", "p">>,
     pkg |-> Cat(<<Rep(Ch(Lower), 2), Plus(Ch(Digit))>>)],
    [dev |-> Cat(<<Lit(<<"x", "c", "3", "s">>), Plus(Ch(Digit)), Opt(Lit(<<"l">>))>>),
     fam |-> <<"s", "p", "a", "r", "t", "a", "n", "3">>,
     pkg |-> Cat(<<Rep(Ch(Lower), 2), Plus(Ch(Digit))>>)],
    [dev |-> Cat(<<Lit(<<"x", "a", "3", "s">>), Plus(Ch(Digit)), Opt(Lit(<<"l">>))>>),
     fam |-> <<"s", "p", "a", "r", "t", "a", "n", "3">>,
     pkg |-> Cat(<<Rep(Ch(Lower), 2), Lit(<<"g">>), Plus(Ch(Digit))>>)],
    [dev |-> Cat(<<Lit(<<"x", "c", "3", "s">>), Plus(Ch(Digit)), Lit(<<"e">>)>>),
     fam |-> <<"s", "p", "a", "r", "t", "a", "n", "3", "e">>,
     pkg |-> Cat(<<Rep(Ch(Lower), 2), Plus(Ch(Digit))>>)],
    [dev |-> Cat(<<Lit(<<"x", "a", "3", "s">>), Plus(Ch(Digit)), Lit(<<"e">>)>>),
     fam |-> <<"s", "p", "a", "r", "t", "a", "n", "3", "e">>,
     pkg |-> Cat(<<Rep(Ch(Lower), 2), Lit(<<"g">>), Plus(Ch(Digit))>>)],
    [dev |-> Cat(<<Lit(<<"x", "c", "3", "s">>), Plus(Ch(Digit)), Lit(<<"a">>)>>),
     fam |-> <<"s", "p", "a", "r", "t", "a", "n", "3", "a">>,
     pkg |-> Cat(<<Rep(Ch(Lower), 2), Plus(Ch(Digit))>>)],
    [dev |-> Cat(<<Lit(<<"x", "c", "3", "s">>), Plus(Ch(Digit)), Lit(<<"a", "n">>)>>),
     fam |-> <<"s", "p", "a", "r", "t", "a", "n", "3", "a">>,
     pkg |-> Cat(<<Rep(Ch(Lower), 2), Lit(<<"g">>), Plus(Ch(Digit))>>)],
    [dev |-> Cat(<<Lit(<<"x", "a", "3", "s">>), Plus(Ch(Digit)), Lit(<<"a">>)>>),
     fam |-> <<"s", "p", "a", "r", "t", "a", "n", "3", "a">>,
     pkg |-> Cat(<<Rep(Ch(Lower), 2), Lit(<<"g">>), Plus(Ch(Digit))>>)],
    [dev |-> Cat(<<Lit(<<"x", "c", "3", "s", "d">>), Plus(Ch(Digit)), Lit(<<"a">>)>>),
     fam |-> <<"s", "p", "a", "r", "t", "a", "n", "3", "a", "d", "s", "p">>,
     pkg |-> Cat(<<Rep(Ch(Lower), 2), Plus(Ch(Digit))>>)],
    [dev |-> Cat(<<Lit(<<"x", "a", "3", "s", "d">>), Plus(Ch(Digit)), Lit(<<"a">>)>>),
     fam |-> <<"s", "p", "a", "r", "t", "a", "n", "3", "a", "d", "s", "p">>,
     pkg |-> Cat(<<Rep(Ch(Lower), 2), Lit(<<"g">>), Plus(Ch(Digit))>>)],
    [dev |-> Cat(<<Lit(<<"x">>), Ch({"c", "q", "a"}), Lit(<<"6", "s", "l", "x">>), Ch(Digit),
                 Alt(<<Cat(<<Plus(Ch(Digit)), Opt(Lit(<<"t">>))>>), Cat(<<>>)>>),
                 Opt(Lit(<<"l">>))>>),
     fam |-> <<"s", "p", "a", "r", "t", "a", "n", "6">>,
     pkg |-> Cat(<<Rep(Ch(Lower), 2), Opt(Lit(<<"g">>)), Plus(Ch(Digit))>>)],
    [dev |-> Cat(<<Lit(<<"x">>), Alt(<<Lit(<<"c">>), Lit(<<"q">>), Lit(<<"q", "r">>)>>),
                 Lit(<<"4", "v">>), Ch({"l", "s", "f"}), Lit(<<"x">>), Plus(Ch(Digit))>>),
     fam |-> <<"v", "i", "r", "t", "e", "x", "4">>,
     pkg |-> Cat(<<Rep(Ch(Lower), 2), Plus(Ch(Digit))>>)],
    [dev |-> Cat(<<Lit(<<"x">>), Ch({"c", "q"}), Lit(<<"5", "v">>), Ch({"l", "s", "f", "t"}),
                 Lit(<<"x">>), Plus(Ch(Digit)), Opt(Lit(<<"t">>))>>),
     fam |-> <<"v", "i", "r", "t", "e", "x", "5">>,
     pkg |-> Cat(<<Rep(Ch(Lower), 2), Plus(Ch(Digit))>>)],
    [dev |-> Cat(<<Lit(<<"x">>), Ch({"c", "q"}), Lit(<<"6", "v">>), Ch({"l", "s", "h", "c"}),
                 Lit(<<"x">>), Plus(Ch(Digit)), Opt(Lit(<<"t">>)), Opt(Lit(<<"l">>))>>),
     fam |-> <<"v", "i", "r", "t", "e", "x", "6">>,
     pkg |-> Cat(<<Rep(Ch(Lower), 2), Opt(Lit(<<"g">>)), Plus(Ch(Digit))>>)],
    [dev |-> Cat(<<Lit(<<"x">>), Ch({"c", "a"}), Lit(<<"7">>), Alt(<<Ch({"a", "k", "v", "z"}),
                 Cat(<<Lit(<<"v">>), Ch({"x", "h"})>>)>>), Plus(Ch(Digit)), Opt(Ch({"s",
                 "t"})), Opt(Ch({"l", "i"}))>>),
     fam |-> <<"7", "s", "e", "r", "i", "e", "s">>,
     pkg |-> Cat(<<Rep(Ch(Lower), 2), Ch({"g", "v"}), Plus(Ch(Digit))>>)],
    [dev |-> Cat(<<Lit(<<"x", "q", "7">>), Alt(<<Ch({"a", "k", "v"}), Cat(<<Lit(<<"v">>),
                 Ch({"x", "h"})>>)>>), Plus(Ch(Digit)), Opt(Lit(<<"t">>)), Opt(Ch({"l",
                 "i"}))>>),
     fam |-> <<"7", "s", "e", "r", "i", "e", "s">>,
     pkg |-> Cat(<<Rep(Ch(Lower), 2), Plus(Ch(Digit))>>)],
    [dev |-> Cat(<<Lit(<<"x", "q", "7", "z">>), Plus(Ch(Digit))>>),
     fam |-> <<"7", "s", "e", "r", "i", "e", "s">>,
     pkg |-> Cat(<<Rep(Ch(Lower), 2), Opt(Lit(<<"g">>)), Plus(Ch(Digit))>>)]
    >>

\* a matcher without the `$` of the pattern
FirstSplit_unanchored(row, s) ==
    LET de == Ends(row.dev, s, 0)
        ok == {j \in DOMAIN de : Ends(row.pkg, s, de[j]) # <<>>}
    IN  IF ok = {} THEN -1 ELSE de[CHOOSE j \in ok : \A q \in ok : j <= q]

\* re.captures(s) for "^(" + dpat + ")(" + ppat + ")$": the end of the
\* first group, -1 for no match
FirstSplit(row, s) ==
    LET de == Ends(row.dev, s, 0)
        ok == {j \in DOMAIN de : Len(s) \in Range(Ends(row.pkg, s, de[j]))}
    IN  IF ok = {} THEN -1 ELSE de[CHOOSE j \in ok : \A q \in ok : j <= q]

\* the loop of split_partname from row k on
RECURSIVE SplitFrom(_, _)
SplitFrom(s, k) ==
    IF k > Len(PATTERNS) THEN None
    ELSE LET m == FirstSplit(PATTERNS[k], s)
         IN  IF m # -1
             THEN Some(<<Slice(s, 0, m), Slice(s, m, Len(s)), PATTERNS[k].fam>>)
             ELSE SplitFrom(s, k + 1)

split_partname(s) == SplitFrom(s, 1)

\* the part names split_partname is called with: a device name or a piece
\* of one, followed by a package name or a piece of one
PartNames ==
    {d \o p :
        d \in
            {<<"x", "c", "6", "s", "l", "x", "9">>,
             <<"x", "q", "6", "s", "l", "x", "7", "5", "t">>,
             <<"x", "c", "6", "s", "l", "x", "1", "6", "l">>,
             <<"x", "c", "2", "c", "6", "4", "a">>,
             <<"x", "c", "9", "5", "1", "4", "4", "x", "l">>,
             <<"x", "c", "r", "3", "0", "6", "4", "x", "l">>,
             <<"x", "c", "4", "0", "0", "5", "e">>, <<"x", "c", "4", "0", "0", "5", "x", "l">>,
             <<"x", "c", "4", "0", "0", "5", "x", "l", "a">>,
             <<"x", "c", "4", "0", "0", "5", "x", "v">>, <<"x", "c", "s", "3", "0">>,
             <<"x", "c", "s", "3", "0", "x", "l">>, <<"x", "c", "v", "5", "0">>,
             <<"x", "c", "v", "5", "0", "e">>, <<"x", "c", "2", "v", "4", "0">>,
             <<"x", "c", "2", "v", "p", "2">>, <<"x", "c", "3", "s", "5", "0">>,
             <<"x", "c", "3", "s", "5", "0", "e">>, <<"x", "c", "3", "s", "5", "0", "a">>,
             <<"x", "c", "3", "s", "5", "0", "a", "n">>, <<"x", "a", "3", "s", "5", "0">>,
             <<"x", "c", "3", "s", "d", "1", "8", "0", "0", "a">>,
             <<"x", "c", "4", "v", "l", "x", "1", "5">>,
             <<"x", "c", "5", "v", "l", "x", "3", "0", "t">>,
             <<"x", "c", "6", "v", "l", "x", "7", "5", "t", "l">>,
             <<"x", "c", "7", "a", "3", "5", "t">>,
             <<"x", "c", "7", "v", "x", "4", "8", "5", "t">>,
             <<"x", "q", "7", "z", "0", "2", "0">>, <<"x", "q", "7", "a", "5", "0", "t">>, <<>>,
             <<"x", "c">>, <<"y", "c", "3", "s", "5", "0">>},
        p \in
            {<<"t", "q", "g", "1", "4", "4">>, <<"c", "s", "4", "8", "4">>,
             <<"p", "q", "2", "0", "8">>, <<"g", "1", "4", "4">>,
             <<"f", "f", "v", "1", "1", "5", "6">>, <<"g", "g", "1", "0", "0">>, <<>>,
             <<"t", "q">>, <<"p", "q", "2", "0", "8", "x">>, <<"P", "Q", "2", "0", "8">>}}

\* the numeric parts of the names split_xy is called with
XyNumbers ==
    {<<"0">>, <<"1", "2">>, <<"1", "2", "3">>,
     <<"4", "5", "6">>, <<"0", "0", "7">>, <<>>,
     <<"+", "1">>, <<"1", "a">>, <<"9", "9", "9", "9", "9", "9", "9", "9", "9", "9", "9">>}

\* the names split_xy is called with
XyNames ==
    {b \o x1 \o x \o y1 \o y :
        b \in {<<>>, <<"S">>, <<"S", "L", "I", "C", "E">>, <<"A", "_", "X", "1", "Y", "2">>},
        x1 \in {<<"_", "X">>, <<"_", "x">>, <<>>},
        y1 \in {<<"Y">>, <<>>},
        x \in XyNumbers, y \in XyNumbers}

\* a call of a function that reads no state and changes none
PureCall(name, arg, r) ==
    /\ last' = <<name, arg, r>>
    /\ UNCHANGED <<batch, builder_vars, overflow_checks, err, finished, file, loaded,
                   reported, node_eps>>

SplitPartname == \E s \in PartNames : PureCall("split_partname", s, split_partname(s))

SplitXy == \E s \in XyNames : PureCall("split_xy", s, split_xy(s))

NextP == SplitPartname \/ SplitXy

SpecP == InitT /\ [][NextP]_vars

\* ------------------------------------------------------------------------
\* Every reported wire named once: the tiles of Spec are presented first,
\* then add_node is called with endpoint lists that name (tile, wire) pairs
\* the toolchain reported, with the speed it reported, and that no earlier
\* call named. last carries the calls made so far, each with the node it
\* created (NoNode for a call that created none).
\* ------------------------------------------------------------------------
NoNode == -1

\* the add_node calls made so far
NodeCalls == IF last[1] = "add_node_once" THEN last[3] ELSE <<>>

\* the (tile, wire) pairs the toolchain reported, with the reported speed
ReportedEndpoints ==
    UNION {{[tile |-> TileName(c), wire |-> reported[c].inp.wires[i].name,
             speed |-> reported[c].inp.wires[i].speed] :
                i \in DOMAIN reported[c].inp.wires} : c \in DOMAIN reported}

\* the endpoints the calls made so far named
NamedEndpoints ==
    UNION {Range(NodeCalls[k].eps) : k \in DOMAIN NodeCalls}

\* the endpoint lists of the next call: one or two endpoints not named yet
NodeInputsN ==
    {eps \in SeqsUpTo(ReportedEndpoints \ NamedEndpoints, MaxEndpoints) \ {<<>>} :
        \A i, j \in DOMAIN eps : i # j => eps[i] # eps[j]}

AddTileN ==
    /\ last[1] \in {"new", "add_tile"}
    /\ AddTile

AddNodeOnce ==
    \E eps \in NodeInputsN :
        /\ Building
        /\ DOMAIN part.tiles # {}
        /\ LET r == add_node(Builder, eps)
               made == Len(r.part.nodes) > Len(part.nodes)
           IN  IF r.err = OK
               THEN /\ SetBuilder(r)
                    /\ node_eps' = IF made THEN Append(node_eps, eps) ELSE node_eps
                    /\ last' = <<"add_node_once", eps,
                                 Append(NodeCalls,
                                        [eps |-> eps,
                                         node |-> IF made THEN Len(part.nodes)
                                                  ELSE NoNode])>>
                    /\ UNCHANGED <<batch, overflow_checks, err, finished, file, loaded,
                                   reported>>
               ELSE /\ err' = r.err
                    /\ UNCHANGED <<batch, builder_vars, overflow_checks, finished, file,
                                   loaded, reported, node_eps, last>>

NextN == AddTileN \/ AddNodeOnce

SpecN == Init /\ [][NextN]_vars

\* ------------------------------------------------------------------------
\* Properties: helpers
\* ------------------------------------------------------------------------
\* the NodeIdx slot i of a tile resolves to: NONE beyond the array
Resolved(tile, i) ==
    IF i < Len(tile.conn_wires) THEN tile.conn_wires[i + 1] ELSE NodeIdx_NONE

IsNode(ni) == ni # NodeIdx_NONE /\ ni # NodeIdx_PENDING

\* the NodeIdx the wire named wire of the tile named tile resolves to in the
\* Part p: NONE when the wire is not Connected in the tile's kind
NodeOfIn(p, coord, wire) ==
    LET tk == p.tile_kinds[p.tiles[coord].kind] IN
    IF wire \notin DOMAIN wires_by_name THEN NodeIdx_NONE
    ELSE LET h == wires_by_name[wire] IN
         IF h \notin DOMAIN tk.wires \/ tk.wires[h].tag # "Connected" THEN NodeIdx_NONE
         ELSE Resolved(p.tiles[coord], tk.wires[h].v)

NodeOf(tile, wire) == NodeOfIn(part, tiles_by_name[tile], wire)

\* ------------------------------------------------------------------------
\* C1
\* ------------------------------------------------------------------------
\* C1: after finish, to_file and from_file (with post_deserialize), every
\* (tile, wire) whose wire is Connected in the tile's kind resolves to the
\* same NodeIdx in the loaded Part as in the Part that was written, PENDING
\* entries included.
C1_RoundTripWires ==
    loaded # <<>> =>
        \A c \in DOMAIN part.tiles :
            LET tk == part.tile_kinds[part.tiles[c].kind] IN
            \A w \in DOMAIN tk.wires :
                tk.wires[w].tag = "Connected" =>
                    Resolved(loaded[1].tiles[c], tk.wires[w].v)
                        = Resolved(part.tiles[c], tk.wires[w].v)

\* ------------------------------------------------------------------------
\* C2
\* ------------------------------------------------------------------------
HasDupPair(eps) ==
    \E i, j \in DOMAIN eps :
        i # j /\ eps[i].tile = eps[j].tile /\ eps[i].wire = eps[j].wire

ClaimsResolved(eps) ==
    \E i \in DOMAIN eps : IsNode(NodeOf(eps[i].tile, eps[i].wire))

\* C2: every endpoint of every node created so far still resolves to that
\* node (a slot holding a node is never overwritten, so a (tile, wire) has at
\* most one node), and an add_node call that names a (tile, wire) twice or
\* names one that already resolves to a node ends in a panic instead of
\* creating a node.
C2_OneNodePerWire ==
    /\ \A n \in DOMAIN node_eps : \A i \in DOMAIN node_eps[n] :
           NodeOf(node_eps[n][i].tile, node_eps[n][i].wire) = n - 1
    /\ Building =>
           \A eps \in NodeInputs :
               (HasDupPair(eps) \/ ClaimsResolved(eps)) => add_node(Builder, eps).err # OK

\* a second node was refused, with a node in place
C2_Witness ==
    /\ err = "conn wire double set"
    /\ Len(part.nodes) >= 1
    /\ \E c \in DOMAIN part.tiles : \E i \in DOMAIN part.tiles[c].conn_wires :
           IsNode(part.tiles[c].conn_wires[i])

\* ------------------------------------------------------------------------
\* C9
\* ------------------------------------------------------------------------
\* the multiset of (coordinate - base, wire, speed) of an endpoint list, by
\* names: a function from the triples to their multiplicities
ShapeOf(eps) ==
    LET crd == [i \in DOMAIN eps |-> tiles_by_name[eps[i].tile]]
        bx == Min({crd[i].x : i \in DOMAIN eps})
        by == Min({crd[i].y : i \in DOMAIN eps})
        tr == [i \in DOMAIN eps |->
                  <<crd[i].x - bx, crd[i].y - by, eps[i].wire, eps[i].speed>>]
    IN  [t \in Range(tr) |-> Cardinality({i \in DOMAIN eps : tr[i] = t})]

\* C9: every add_node call that creates a node adds one entry to nodes; two
\* nodes whose endpoint lists have the same multiset of (coordinate - base,
\* wire, speed) reference the same template, and templates has one entry per
\* distinct multiset.
C9_TemplateDedup ==
    /\ Len(node_eps) = Len(part.nodes)
    /\ \A m, n \in DOMAIN node_eps :
           ShapeOf(node_eps[m]) = ShapeOf(node_eps[n])
               => part.nodes[m].template = part.nodes[n].template
    /\ Len(part.templates) = Cardinality({ShapeOf(node_eps[n]) : n \in DOMAIN node_eps})

\* two nodes at different bases, their two-endpoint lists in different wire
\* order, sharing the one template
C9_Witness ==
    /\ Len(part.nodes) = 2
    /\ Len(part.templates) = 1
    /\ part.nodes[1].template = part.nodes[2].template
    /\ part.nodes[1].base # part.nodes[2].base
    /\ Len(node_eps[1]) = 2
    /\ node_eps[1][1].wire # node_eps[2][1].wire

\* ------------------------------------------------------------------------
\* C10
\* ------------------------------------------------------------------------
\* the case of the fast path, read off the tables: one endpoint, whose wire
\* is Internal in its tile's kind with the endpoint's speed
FastCase(eps) ==
    /\ Len(eps) = 1
    /\ eps[1].tile \in DOMAIN tiles_by_name
    /\ eps[1].wire \in DOMAIN wires_by_name
    /\ LET tk == part.tile_kinds[part.tiles[tiles_by_name[eps[1].tile]].kind]
           h == wires_by_name[eps[1].wire]
       IN  /\ h \in DOMAIN tk.wires
           /\ tk.wires[h].tag = "Internal"
           /\ IF eps[1].speed.some
              THEN /\ eps[1].speed.v \in DOMAIN speeds_by_name
                   /\ tk.wires[h].v = speeds_by_name[eps[1].speed.v]
              ELSE tk.wires[h].v = SpeedIdx_UNKNOWN

\* C10: an add_node call in the case of the fast path returns with the whole
\* builder unchanged (no node, no template, no interned name); every other
\* call either panics or appends exactly one node.
C10_FastPath ==
    Building =>
        \A eps \in NodeInputs :
            LET r == add_node(Builder, eps) IN
            IF FastCase(eps) THEN r = Builder
            ELSE r.err # OK \/ Len(r.part.nodes) = Len(part.nodes) + 1

\* add_node returned through the fast path
C10_Witness ==
    /\ last[1] = "add_node"
    /\ FastCase(last[2])
    /\ err = OK

\* ------------------------------------------------------------------------
\* Properties of add_tile: helpers
\* ------------------------------------------------------------------------
\* a step in which add_tile returned, for the kind k
AddTileReturned(k) ==
    /\ part' # part
    /\ last'[1] = "add_tile"
    /\ last'[3] = k

\* the name of a speed handle in the Part p; NoSpeed for SpeedIdx::NONE
NoSpeed == [some |-> FALSE, v |-> <<"N", "O", "N", "E">>]

SpeedView(p, s) ==
    IF s = SpeedIdx_NONE THEN NoSpeed
    ELSE IF s = SpeedIdx_UNKNOWN THEN None
    ELSE Some(p.speeds[s + 1])

WireName(p, h) == p.wires[h + 1]

\* the handle of a wire name in the Part p; the name is interned
WireHandle(p, n) == CHOOSE h \in 0..(Len(p.wires) - 1) : p.wires[h + 1] = n

IsWire(p, n) == \E h \in 0..(Len(p.wires) - 1) : p.wires[h + 1] = n

\* the wire names the toolchain listed for the tile at coordinate c
ReportedWires(c) ==
    {reported[c].inp.wires[i].name : i \in DOMAIN reported[c].inp.wires}

\* the speeds the toolchain listed for the pip wf -> wt over the tiles of
\* kind k
ReportedPipSpeeds(k, wf, wt) ==
    UNION {{reported[c].inp.pips[i].speed :
               i \in {j \in DOMAIN reported[c].inp.pips :
                         /\ reported[c].inp.pips[j].wf = wf
                         /\ reported[c].inp.pips[j].wt = wt}} :
           c \in {d \in DOMAIN reported : reported[d].kind = k}}

\* var_pips[i] of a tile: NONE beyond the array
ResolvedPip(tile, i) ==
    IF i < Len(tile.var_pips) THEN tile.var_pips[i + 1] ELSE SpeedIdx_NONE

\* ------------------------------------------------------------------------
\* C3
\* ------------------------------------------------------------------------
\* C3: when add_tile returns for a kind that already had two or more tiles,
\* every wire that was Internal(cs) in the kind and that the call lists with
\* a speed other than cs is Connected(i) afterwards, i being a slot the call
\* appended to the kind's conn_wires, and every tile the kind had before and
\* the new tile hold PENDING at conn_wires[i] (the slot is in the array).
C3_PromotionPropagates ==
    [][\A k \in DOMAIN part.tile_kinds :
          (AddTileReturned(k) /\ Len(part.tile_kinds[k].tiles) >= 2) =>
              \A j \in DOMAIN last'[4].wires :
                  LET w == last'[4].wires[j]
                      tk == part.tile_kinds[k]
                      tk2 == part'.tile_kinds[k]
                  IN  (/\ IsWire(part, w.name)
                       /\ WireHandle(part, w.name) \in DOMAIN tk.wires
                       /\ tk.wires[WireHandle(part, w.name)].tag = "Internal"
                       /\ SpeedView(part, tk.wires[WireHandle(part, w.name)].v) # w.speed)
                      => LET h == WireHandle(part, w.name)
                             i == tk2.wires[h].v
                         IN  /\ tk2.wires[h].tag = "Connected"
                             /\ i >= Len(tk.conn_wires)
                             /\ i < Len(tk2.conn_wires)
                             /\ tk2.conn_wires[i + 1] = h
                             /\ SubSeq(tk2.conn_wires, 1, Len(tk.conn_wires)) = tk.conn_wires
                             /\ \A c \in Range(tk.tiles) \cup {last'[2]} :
                                    /\ i < Len(part'.tiles[c].conn_wires)
                                    /\ part'.tiles[c].conn_wires[i + 1] = NodeIdx_PENDING
      ]_vars

\* the third tile of the kind listed wire A with speed s2 after the first
\* two listed it with s1: A is Connected and all three tiles hold PENDING
C3_Witness ==
    /\ KT \in DOMAIN part.tile_kinds
    /\ LET tk == part.tile_kinds[KT] IN
       /\ Len(tk.tiles) = 3
       /\ last[1] = "add_tile"
       /\ [name |-> WA, speed |-> Some(S1)] \in Range(reported[tk.tiles[1]].inp.wires)
       /\ [name |-> WA, speed |-> Some(S1)] \in Range(reported[tk.tiles[2]].inp.wires)
       /\ [name |-> WA, speed |-> Some(S2)] \in Range(reported[tk.tiles[3]].inp.wires)
       /\ tk.wires[WireHandle(part, WA)].tag = "Connected"
       /\ \A c \in Range(tk.tiles) :
              Resolved(part.tiles[c], tk.wires[WireHandle(part, WA)].v) = NodeIdx_PENDING

\* ------------------------------------------------------------------------
\* C4
\* ------------------------------------------------------------------------
\* C4: a pip of a kind is Variable exactly when the tiles of the kind listed
\* two or more distinct speeds for its (from, to) key, and is Const, with
\* the one speed listed, otherwise.  When add_tile returns for an existing
\* kind, every pip that was Const(cs) and that the call lists with a speed s
\* other than cs is Variable(i) afterwards, i being a slot the call appended
\* to the kind's var_pips; the new tile has var_pips[i] = s and every tile
\* the kind had before that listed both endpoint wires has var_pips[i] = cs.
C4_PipPromotion ==
    /\ [](\A k \in DOMAIN part.tile_kinds : \A key \in DOMAIN part.tile_kinds[k].pips :
             LET pip == part.tile_kinds[k].pips[key]
                 sp == ReportedPipSpeeds(k, WireName(part, key[1]), WireName(part, key[2]))
             IN  IF Cardinality(sp) >= 2 THEN pip.mode.tag = "Variable"
                 ELSE pip.mode.tag = "Const" /\ sp = {SpeedView(part, pip.mode.v)})
    /\ [][\A k \in DOMAIN part.tile_kinds :
             AddTileReturned(k) =>
                 \A j \in DOMAIN last'[4].pips :
                     LET p == last'[4].pips[j]
                         tk == part.tile_kinds[k]
                         tk2 == part'.tile_kinds[k]
                     IN  (/\ IsWire(part, p.wf)
                          /\ IsWire(part, p.wt)
                          /\ <<WireHandle(part, p.wf), WireHandle(part, p.wt)>>
                                 \in DOMAIN tk.pips
                          /\ LET old == tk.pips[<<WireHandle(part, p.wf),
                                                  WireHandle(part, p.wt)>>]
                             IN  /\ old.mode.tag = "Const"
                                 /\ SpeedView(part, old.mode.v) # p.speed)
                         => LET key == <<WireHandle(part, p.wf), WireHandle(part, p.wt)>>
                                cs == tk.pips[key].mode.v
                                i == tk2.pips[key].mode.v
                            IN  /\ tk2.pips[key].mode.tag = "Variable"
                                /\ i >= Len(tk.var_pips)
                                /\ i < Len(tk2.var_pips)
                                /\ tk2.var_pips[i + 1] = key
                                /\ SubSeq(tk2.var_pips, 1, Len(tk.var_pips)) = tk.var_pips
                                /\ i < Len(part'.tiles[last'[2]].var_pips)
                                /\ SpeedView(part', part'.tiles[last'[2]].var_pips[i + 1])
                                       = p.speed
                                /\ \A c \in Range(tk.tiles) :
                                       {p.wf, p.wt} \subseteq ReportedWires(c) =>
                                           /\ i < Len(part'.tiles[c].var_pips)
                                           /\ part'.tiles[c].var_pips[i + 1] = cs
         ]_vars

\* the call that just returned listed the pip A -> B with another speed than
\* every tile before it: the pip is Variable, the new tile holds its own
\* speed and an earlier tile with both wires holds the former constant
C4_Witness ==
    /\ KT \in DOMAIN part.tile_kinds
    /\ last[1] = "add_tile"
    /\ last[4].pips # <<>>
    /\ IsWire(part, WA) /\ IsWire(part, WB)
    /\ LET tk == part.tile_kinds[KT]
           key == <<WireHandle(part, WA), WireHandle(part, WB)>>
           s == last[4].pips[1].speed
       IN  /\ Len(tk.tiles) = 3
           /\ tk.pips[key].mode.tag = "Variable"
           /\ SpeedView(part, ResolvedPip(part.tiles[last[2]], tk.pips[key].mode.v)) = s
           /\ \A c \in DOMAIN reported \ {last[2]} :
                  \A j \in DOMAIN reported[c].inp.pips : reported[c].inp.pips[j].speed # s
           /\ \E c \in DOMAIN reported \ {last[2]} :
                  /\ reported[c].inp.pips # <<>>
                  /\ SpeedView(part, ResolvedPip(part.tiles[c], tk.pips[key].mode.v))
                         = reported[c].inp.pips[1].speed

\* ------------------------------------------------------------------------
\* C5
\* ------------------------------------------------------------------------
\* C5: when add_tile turns a pip of a kind from Const to Variable(i), every
\* tile the kind had before whose wire list lacked one of the pip's endpoint
\* wires resolves var_pips[i] to NONE, whether the missing wire is Internal
\* or Connected in the kind.
C5_AbsentEndpointGetsNone ==
    [][\A k \in DOMAIN part.tile_kinds :
          AddTileReturned(k) =>
              \A key \in DOMAIN part.tile_kinds[k].pips :
                  LET tk == part.tile_kinds[k]
                      tk2 == part'.tile_kinds[k]
                  IN  (tk.pips[key].mode.tag = "Const" /\ tk2.pips[key].mode.tag = "Variable")
                      => \A c \in Range(tk.tiles) :
                             ~({WireName(part, key[1]), WireName(part, key[2])}
                                   \subseteq ReportedWires(c))
                             => ResolvedPip(part'.tiles[c], tk2.pips[key].mode.v)
                                    = SpeedIdx_NONE
      ]_vars

\* ------------------------------------------------------------------------
\* C6
\* ------------------------------------------------------------------------
\* C6: a second add_tile call with the arguments of the call before it, for
\* the same coordinate, leaves every TileKind (its tiles list included) and
\* every Tile record as the first call left them.
C6_MergeIdempotent ==
    [][(last[1] = "add_tile" /\ last'[1] = "add_tile_again") =>
          /\ part'.tile_kinds = part.tile_kinds
          /\ part'.tiles = part.tiles
      ]_vars

\* ------------------------------------------------------------------------
\* Orders of the add_tile calls
\* ------------------------------------------------------------------------
\* the sequences that list every element of the set S once
Orders(S) == {o \in [1..Cardinality(S) -> S] : Range(o) = S}

\* a new builder for the Part being built, given the add_tile calls of the
\* tiles order[1..n] with the arguments the toolchain gave for them
RECURSIVE Replay(_, _)
Replay(order, n) ==
    IF n = 0
    THEN PartBuilder_new(part.part, part.family, part.source, part.width, part.height,
                         overflow_checks)
    ELSE LET c == order[n]
         IN  add_tile(Replay(order, n - 1), c, TileName(c), reported[c].kind,
                      reported[c].inp.sites, reported[c].inp.wires, reported[c].inp.pips)

\* a site slot with its slot kind by name
SlotView(p, slot) ==
    [tag |-> slot.tag, kind |-> p.slot_kinds[slot.kind + 1], a |-> slot.a, b |-> slot.b]

\* the contents of the kind k of the Part p without its numbering: the site
\* slots with kind string and pin names, the wire names, the pip keys with
\* their flags
KindView(p, k) ==
    LET tk == p.tile_kinds[k] IN
    [sites |-> {[slot |-> SlotView(p, tk.sites[i].slot), kind |-> tk.sites[i].kind,
                 pins |-> DOMAIN tk.sites[i].pins] : i \in DOMAIN tk.sites},
     wires |-> {WireName(p, h) : h \in DOMAIN tk.wires},
     pips |-> {[wf |-> WireName(p, key[1]), wt |-> WireName(p, key[2]),
                flags |-> PipFlags(tk.pips[key])] : key \in DOMAIN tk.pips}]

\* the classification of the wires and pips of the kind k, by names
ClassView(p, k) ==
    LET tk == p.tile_kinds[k] IN
    [wires |-> [n \in {WireName(p, h) : h \in DOMAIN tk.wires} |->
                   LET w == tk.wires[WireHandle(p, n)] IN
                   IF w.tag = "Internal"
                   THEN [tag |-> "Internal", speed |-> SpeedView(p, w.v)]
                   ELSE [tag |-> "Connected", speed |-> NoSpeed]],
     pips |-> [e \in {<<WireName(p, key[1]), WireName(p, key[2])>> :
                         key \in DOMAIN tk.pips} |->
                  LET m == tk.pips[<<WireHandle(p, e[1]), WireHandle(p, e[2])>>].mode IN
                  IF m.tag = "Const"
                  THEN [tag |-> "Const", speed |-> SpeedView(p, m.v)]
                  ELSE [tag |-> "Variable", speed |-> NoSpeed]]]

\* what the tile at c resolves to: per Connected wire of its kind the
\* NodeIdx, per Variable pip the speed, by names
TileView(p, c) ==
    LET tile == p.tiles[c]
        tk == p.tile_kinds[tile.kind]
    IN  [wires |-> [n \in {WireName(p, h) :
                              h \in {g \in DOMAIN tk.wires : tk.wires[g].tag = "Connected"}} |->
                       Resolved(tile, tk.wires[WireHandle(p, n)].v)],
         pips |-> [e \in {<<WireName(p, key[1]), WireName(p, key[2])>> :
                             key \in {q \in DOMAIN tk.pips :
                                         tk.pips[q].mode.tag = "Variable"}} |->
                      SpeedView(p, ResolvedPip(tile,
                          tk.pips[<<WireHandle(p, e[1]), WireHandle(p, e[2])>>].mode.v))]]

\* ------------------------------------------------------------------------
\* C7
\* ------------------------------------------------------------------------
\* C7: the add_tile calls made so far for the tiles of a kind (distinct
\* coordinates, mutually consistent), made in any other order on a new
\* builder, all return and give every kind the same set of site slots (with
\* kind string and pin names), the same set of wire names and the same set
\* of pip keys with the same flags.
C7_MergeCommutes ==
    \A o \in Orders(DOMAIN reported) :
        LET r == Replay(o, Len(o)) IN
        /\ r.err = OK
        /\ DOMAIN r.part.tile_kinds = DOMAIN part.tile_kinds
        /\ \A k \in DOMAIN part.tile_kinds : KindView(r.part, k) = KindView(part, k)

\* three tiles, the first without the site, the wire A and the pip that a
\* later one has, and an order of the calls that numbers the kind otherwise
C7_Witness ==
    /\ Cardinality(DOMAIN reported) = 3
    /\ err = OK
    /\ reported[[x |-> 0, y |-> 0]].inp.sites = <<>>
    /\ WA \notin ReportedWires([x |-> 0, y |-> 0])
    /\ KindView(part, KT).sites # {}
    /\ KindView(part, KT).pips # {}
    /\ \E o \in Orders(DOMAIN reported) :
           Replay(o, Len(o)).part.tile_kinds[KT].wires # part.tile_kinds[KT].wires

\* ------------------------------------------------------------------------
\* C8
\* ------------------------------------------------------------------------
\* C8: the add_tile calls made so far, made in any other order on a new
\* builder, give every wire of a kind the same classification (Internal
\* with its speed, or Connected), every pip the same classification (Const
\* with its speed, or Variable), and every tile the same resolved values.
C8_OrderIndependent ==
    \A o \in Orders(DOMAIN reported) :
        LET r == Replay(o, Len(o)) IN
        /\ r.err = OK
        /\ \A k \in DOMAIN part.tile_kinds : ClassView(r.part, k) = ClassView(part, k)
        /\ \A c \in DOMAIN part.tiles : TileView(r.part, c) = TileView(part, c)

\* ------------------------------------------------------------------------
\* C11
\* ------------------------------------------------------------------------
\* the handle of an endpoint's speed: UNKNOWN without a name
SpeedHandle(sp) == IF sp.some THEN speeds_by_name[sp.v] ELSE SpeedIdx_UNKNOWN

\* the template entry of endpoint i of an endpoint list, relative to base
EntryOf(eps, i, base) ==
    [delta |-> [x |-> tiles_by_name[eps[i].tile].x - base.x,
                y |-> tiles_by_name[eps[i].tile].y - base.y],
     wire |-> wires_by_name[eps[i].wire],
     speed |-> SpeedHandle(eps[i].speed)]

\* C11: the base of every created node is the component-wise minimum of the
\* coordinates of its endpoints; its template lists exactly the triples
\* (coordinate - base, wire handle, speed handle) of the endpoints, in
\* ascending order; so the template has an entry with delta.x = 0 and one
\* with delta.y = 0, and base + delta of every entry lies inside the Part.
C11_BaseAndTemplate ==
    \A n \in DOMAIN node_eps :
        LET eps == node_eps[n]
            base == part.nodes[n].base
            tw == part.templates[part.nodes[n].template + 1].wires
        IN  /\ base.x = Min({tiles_by_name[eps[i].tile].x : i \in DOMAIN eps})
            /\ base.y = Min({tiles_by_name[eps[i].tile].y : i \in DOMAIN eps})
            /\ Len(tw) = Len(eps)
            /\ \A t \in Range(tw) \cup {EntryOf(eps, i, base) : i \in DOMAIN eps} :
                   Cardinality({j \in DOMAIN tw : tw[j] = t})
                       = Cardinality({i \in DOMAIN eps : EntryOf(eps, i, base) = t})
            /\ \A i, j \in DOMAIN tw : i < j => ~TwLess(tw[j], tw[i])
            /\ \E j \in DOMAIN tw : tw[j].delta.x = 0
            /\ \E j \in DOMAIN tw : tw[j].delta.y = 0
            /\ \A j \in DOMAIN tw :
                   /\ base.x + tw[j].delta.x < part.width
                   /\ base.y + tw[j].delta.y < part.height

\* a node whose base is not the origin, and a node whose endpoints were
\* given in descending order of coordinate
C11_Witness ==
    /\ \E n \in DOMAIN node_eps : part.nodes[n].base.x > 0
    /\ \E n \in DOMAIN node_eps :
           /\ Len(node_eps[n]) = 2
           /\ tiles_by_name[node_eps[n][1].tile].x > tiles_by_name[node_eps[n][2].tile].x

\* ------------------------------------------------------------------------
\* C12
\* ------------------------------------------------------------------------
\* the tile at coordinate c was reported with kind T, wire A and no pip
ReportedWithA(c) ==
    /\ c \in DOMAIN reported
    /\ reported[c].kind = KT
    /\ reported[c].inp.pips = <<>>
    /\ \E i \in DOMAIN reported[c].inp.wires : reported[c].inp.wires[i].name = WA

\* the calls so far are those of the scenario: the tiles (0,0) and (1,0) of
\* a Part of width 2 and height 1, then one node connecting wire A of both
TwoTileScenario ==
    /\ part.width = 2 /\ part.height = 1
    /\ DOMAIN reported = {[x |-> 0, y |-> 0], [x |-> 1, y |-> 0]}
    /\ ReportedWithA([x |-> 0, y |-> 0])
    /\ ReportedWithA([x |-> 1, y |-> 0])
    /\ Len(node_eps) = 1
    /\ Len(node_eps[1]) = 2
    /\ {<<node_eps[1][i].tile, node_eps[1][i].wire>> : i \in 1..2}
           = {<<TileName([x |-> 0, y |-> 0]), WA>>, <<TileName([x |-> 1, y |-> 0]), WA>>}

\* C12: after add_tile at (0,0) and (1,0) with kind T and wire A and one
\* add_node connecting wire A of both tiles, the Part has exactly one node,
\* with base (0,0), and exactly one template, with two entries of deltas
\* (0,0) and (1,0); wire A is Connected in kind T, and wire A resolves to
\* NodeIdx 0 in both tiles.
C12_TwoTileNode ==
    TwoTileScenario =>
        /\ Len(part.nodes) = 1
        /\ part.nodes[1].base = [x |-> 0, y |-> 0]
        /\ part.nodes[1].template = 0
        /\ Len(part.templates) = 1
        /\ Len(part.templates[1].wires) = 2
        /\ part.templates[1].wires[1].delta = [x |-> 0, y |-> 0]
        /\ part.templates[1].wires[2].delta = [x |-> 1, y |-> 0]
        /\ DOMAIN part.tile_kinds = {KT}
        /\ part.tile_kinds[KT].wires[wires_by_name[WA]].tag = "Connected"
        /\ \A c \in DOMAIN part.tiles :
               Resolved(part.tiles[c], part.tile_kinds[KT].wires[wires_by_name[WA]].v) = 0

\* the scenario with tiles that have wire A and nothing else, the node just
\* added
C12_Witness ==
    /\ TwoTileScenario
    /\ \A c \in DOMAIN reported : Len(reported[c].inp.wires) = 1
    /\ last[1] = "add_node"
    /\ err = OK

\* ------------------------------------------------------------------------
\* C13
\* ------------------------------------------------------------------------
\* C13: an add_tile call on an existing kind that reports a site whose slot
\* the kind already has, with a kind string that differs from the recorded
\* one, does not return: whenever a call returns, every site it bound to a
\* site the kind had before the call has the recorded kind string.
C13_SiteKindChecked ==
    [][\A k \in DOMAIN part.tile_kinds :
          AddTileReturned(k) =>
              \A j \in DOMAIN last'[4].sites :
                  \A i \in DOMAIN part.tile_kinds[k].sites :
                      part'.tiles[last'[2]].sites[i] = Some(last'[4].sites[j].name)
                          => part.tile_kinds[k].sites[i].kind = last'[4].sites[j].kind]_vars

\* ------------------------------------------------------------------------
\* C14
\* ------------------------------------------------------------------------
\* the handle of a pin's wire in the wire table wbn: NONE without a wire, -1
\* for a name that is not in the table
WireOpt(wbn, o) ==
    IF ~o.some THEN WireIdx_NONE
    ELSE IF o.v \in DOMAIN wbn THEN wbn[o.v] ELSE -1

\* the index in kind k of p of the site a returned call bound the name to
BoundSite(p, c, name) ==
    {i \in DOMAIN p.tiles[c].sites : p.tiles[c].sites[i] = Some(name)}

\* the next tile of the row
NextCoord == [x |-> Cardinality(DOMAIN part.tiles), y |-> 0]

\* C14: when add_tile merges a pin of a site that the kind already has, a
\* recorded wire of NONE takes the wire the later instance supplies, and a
\* recorded wire that is set is kept when the later instance supplies the
\* same wire or none; a call that supplies a wire different from the one
\* that is set ends in an error.
C14_PinWireMerge ==
    /\ [](Building /\ KT \in DOMAIN part.tile_kinds =>
            \A inp \in TileInputsM : \A j \in DOMAIN inp.sites :
                \A i \in DOMAIN part.tile_kinds[KT].sites :
                    \A q \in DOMAIN inp.sites[j].pins :
                        LET rec == part.tile_kinds[KT].sites[i].pins[inp.sites[j].pins[q].name].wire
                            w == WireOpt(wires_by_name, inp.sites[j].pins[q].wire)
                        IN  (rec # WireIdx_NONE /\ w # WireIdx_NONE /\ w # rec)
                                => add_tile(Builder, NextCoord, TileName(NextCoord), KT,
                                            inp.sites, inp.wires, inp.pips).err # OK)
    /\ [][\A k \in DOMAIN part.tile_kinds :
             AddTileReturned(k) =>
                 \A j \in DOMAIN last'[4].sites :
                     \A i \in BoundSite(part', last'[2], last'[4].sites[j].name)
                                \cap DOMAIN part.tile_kinds[k].sites :
                         \A q \in DOMAIN last'[4].sites[j].pins :
                             LET n == last'[4].sites[j].pins[q].name
                                 rec == part.tile_kinds[k].sites[i].pins[n].wire
                                 w == WireOpt(wires_by_name', last'[4].sites[j].pins[q].wire)
                                 new == part'.tile_kinds[k].sites[i].pins[n].wire
                             IN  /\ rec = WireIdx_NONE => new = w
                                 /\ rec # WireIdx_NONE => (new = rec /\ w \in {rec, WireIdx_NONE})
        ]_vars

\* a pin recorded without a wire has taken the wire of a later tile
C14_Witness ==
    /\ last[1] = "add_tile"
    /\ Cardinality(DOMAIN reported) = 2
    /\ reported[[x |-> 0, y |-> 0]].inp.sites # <<>>
    /\ last[4].sites # <<>>
    /\ reported[[x |-> 0, y |-> 0]].inp.sites[1].pins[1].wire = None
    /\ last[4].sites[1].pins[1].wire = Some(WB)
    /\ part.tile_kinds[KT].sites[1].pins[PinName.I].wire = wires_by_name[WB]

\* ------------------------------------------------------------------------
\* C15
\* ------------------------------------------------------------------------
\* C15: when add_tile merges a pin of a site that the kind already has and
\* the recorded speed of the pin is unset, the call does not fail on the
\* pin's speed, and when it returns the pin has the speed that the later
\* instance supplied; a call fails on the pin's speed only when the recorded
\* speed is set and differs from the supplied one.
C15_PinSpeedFilled ==
    (Building /\ KT \in DOMAIN part.tile_kinds) =>
        \A inp \in TileInputsM : \A j \in DOMAIN inp.sites :
            \A i \in DOMAIN part.tile_kinds[KT].sites :
                \A q \in DOMAIN inp.sites[j].pins :
                    LET n == inp.sites[j].pins[q].name
                        sp == inp.sites[j].pins[q].speed
                        rec == part.tile_kinds[KT].sites[i].pins[n].speed
                        r == add_tile(Builder, NextCoord, TileName(NextCoord), KT,
                                      inp.sites, inp.wires, inp.pips)
                    IN  /\ r.err = "pin speed mismatch" => rec # SpeedIdx_UNKNOWN
                        /\ (rec = SpeedIdx_UNKNOWN /\ sp.some /\ r.err = OK) =>
                               r.part.tile_kinds[KT].sites[i].pins[n].speed
                                   = r.speeds_by_name[sp.v]

\* ------------------------------------------------------------------------
\* C16
\* ------------------------------------------------------------------------
\* the key in the pip table of kind T, by the wire table, of a reported pip:
\* <<-1, -1>> when one of its wires has no handle yet
PipKey(p) ==
    IF p.wf \in DOMAIN wires_by_name /\ p.wt \in DOMAIN wires_by_name
    THEN <<wires_by_name[p.wf], wires_by_name[p.wt]>> ELSE <<-1, -1>>

\* C16: an add_tile call on an existing kind that reports a pip whose key
\* the kind already has, with is_buf, is_excluded, is_test, inversion or
\* direction different from the recorded pip, ends in an error; and a call
\* that returns leaves the flags of every recorded pip as they were.
C16_PipFlags ==
    /\ [](Building /\ KT \in DOMAIN part.tile_kinds =>
            \A inp \in TileInputsM : \A q \in DOMAIN inp.pips :
                (/\ PipKey(inp.pips[q]) \in DOMAIN part.tile_kinds[KT].pips
                 /\ PipFlags(part.tile_kinds[KT].pips[PipKey(inp.pips[q])])
                        # PipFlags(inp.pips[q]))
                    => add_tile(Builder, NextCoord, TileName(NextCoord), KT,
                                inp.sites, inp.wires, inp.pips).err # OK)
    /\ [][\A k \in DOMAIN part.tile_kinds :
             AddTileReturned(k) =>
                 \A key \in DOMAIN part.tile_kinds[k].pips :
                     PipFlags(part'.tile_kinds[k].pips[key])
                         = PipFlags(part.tile_kinds[k].pips[key])]_vars

\* a call was refused for the flags of its pip
C16_Witness ==
    /\ err = "pip flags mismatch"
    /\ DOMAIN part.tile_kinds[KT].pips # {}

\* ------------------------------------------------------------------------
\* C17
\* ------------------------------------------------------------------------
\* C17: across every add_tile and add_node call, no tile kind is removed,
\* and the set of site slots, the set of wire handles and the set of pip
\* keys of every tile kind only grow.
C17_KindsGrow ==
    [][\A k \in DOMAIN part.tile_kinds :
          /\ k \in DOMAIN part'.tile_kinds
          /\ DOMAIN part.tile_kinds[k].sites_by_slot
                 \subseteq DOMAIN part'.tile_kinds[k].sites_by_slot
          /\ {part.tile_kinds[k].sites[i].slot : i \in DOMAIN part.tile_kinds[k].sites}
                 \subseteq {part'.tile_kinds[k].sites[i].slot :
                               i \in DOMAIN part'.tile_kinds[k].sites}
          /\ DOMAIN part.tile_kinds[k].wires \subseteq DOMAIN part'.tile_kinds[k].wires
          /\ DOMAIN part.tile_kinds[k].pips \subseteq DOMAIN part'.tile_kinds[k].pips]_vars

\* a kind that has grown by a site, a wire and a pip since its first tile,
\* and a node on one of its wires
C17_Witness ==
    /\ Cardinality(DOMAIN reported) = 2
    /\ reported[[x |-> 0, y |-> 0]].inp.sites = <<>>
    /\ Len(reported[[x |-> 0, y |-> 0]].inp.wires) = 1
    /\ Len(part.tile_kinds[KT].sites) = 1
    /\ Cardinality(DOMAIN part.tile_kinds[KT].wires) = 2
    /\ Cardinality(DOMAIN part.tile_kinds[KT].pips) = 1
    /\ Len(part.nodes) = 1
    /\ last[1] = "add_node"

\* ------------------------------------------------------------------------
\* C18
\* ------------------------------------------------------------------------
\* the handle of a reported speed in the speed table sbn: UNKNOWN without a
\* name
SpeedOpt(sbn, o) == IF o.some THEN sbn[o.v] ELSE SpeedIdx_UNKNOWN

\* the call that just returned created the kind k
KindCreated(k) ==
    /\ k \notin DOMAIN part.tile_kinds
    /\ k \in DOMAIN part'.tile_kinds
    /\ last'[1] = "add_tile"
    /\ last'[3] = k

\* C18: when add_tile creates a kind, the TileKind has exactly the sites of
\* this instance (kind string and pins as reported), every reported wire as
\* Internal with the reported speed, every reported pip as Const with the
\* reported speed and the reported flags, empty conn_wires and var_pips, and
\* tiles = [coord]; the Tile record has every site name bound, in the order
\* of the sites, and empty conn_wires and var_pips.
C18_NewKindSeeding ==
    [][\A k \in DOMAIN part'.tile_kinds :
          KindCreated(k) =>
              LET inp == last'[4]
                  tk == part'.tile_kinds[k]
                  tile == part'.tiles[last'[2]]
              IN  /\ Len(tk.sites) = Len(inp.sites)
                  /\ \A i \in DOMAIN inp.sites :
                         /\ tk.sites[i].kind = inp.sites[i].kind
                         /\ tk.sites_by_slot[tk.sites[i].slot] = i - 1
                         /\ DOMAIN tk.sites[i].pins
                                = {inp.sites[i].pins[q].name : q \in DOMAIN inp.sites[i].pins}
                         /\ \A q \in DOMAIN inp.sites[i].pins :
                                tk.sites[i].pins[inp.sites[i].pins[q].name]
                                    = [dir |-> inp.sites[i].pins[q].dir,
                                       wire |-> WireOpt(wires_by_name', inp.sites[i].pins[q].wire),
                                       speed |-> SpeedOpt(speeds_by_name', inp.sites[i].pins[q].speed)]
                  /\ DOMAIN tk.wires
                         = {wires_by_name'[inp.wires[i].name] : i \in DOMAIN inp.wires}
                  /\ \A i \in DOMAIN inp.wires :
                         tk.wires[wires_by_name'[inp.wires[i].name]]
                             = Internal(SpeedOpt(speeds_by_name', inp.wires[i].speed))
                  /\ DOMAIN tk.pips
                         = {<<wires_by_name'[inp.pips[i].wf], wires_by_name'[inp.pips[i].wt]>> :
                               i \in DOMAIN inp.pips}
                  /\ \A i \in DOMAIN inp.pips :
                         LET pip == tk.pips[<<wires_by_name'[inp.pips[i].wf],
                                              wires_by_name'[inp.pips[i].wt]>>]
                         IN  /\ pip.mode = Const(SpeedOpt(speeds_by_name', inp.pips[i].speed))
                             /\ PipFlags(pip) = PipFlags(inp.pips[i])
                  /\ tk.conn_wires = <<>>
                  /\ tk.var_pips = <<>>
                  /\ tk.tiles = <<last'[2]>>
                  /\ tile.sites = [i \in DOMAIN inp.sites |-> Some(inp.sites[i].name)]
                  /\ tile.conn_wires = <<>>
                  /\ tile.var_pips = <<>>]_vars

\* the kind was created by a tile with a site, two wires and a pip
C18_Witness ==
    /\ Cardinality(DOMAIN reported) = 1
    /\ last[1] = "add_tile"
    /\ last[4].sites # <<>>
    /\ last[4].pips # <<>>
    /\ part.tile_kinds[KT].tiles = <<last[2]>>

\* ------------------------------------------------------------------------
\* C19
\* ------------------------------------------------------------------------
InPart(c) == c.x < part.width /\ c.y < part.height

\* C19: an add_tile call with coord.x >= width or coord.y >= height is
\* rejected with every table, every tile kind and every tile as before the
\* call; so every coordinate key of tiles and every coordinate in the tiles
\* list of a kind has x < width and y < height.
C19_Bounds ==
    /\ \A c \in DOMAIN part.tiles : InPart(c)
    /\ \A k \in DOMAIN part.tile_kinds :
           \A i \in DOMAIN part.tile_kinds[k].tiles : InPart(part.tile_kinds[k].tiles[i])
    /\ \A n \in DOMAIN tiles_by_name : InPart(tiles_by_name[n])
    /\ Building =>
           \A coord \in CoordInputs : \A inp \in TileInputs :
               ~InPart(coord) =>
                   LET r == add_tile(Builder, coord, TileName(coord), KT, inp.sites,
                                     inp.wires, inp.pips)
                   IN  /\ r.err # OK
                       /\ [r EXCEPT !.err = OK] = Builder

\* a call was rejected by an assertion, with a tile and a node in place
C19_Witness ==
    /\ err = "assertion failed"
    /\ Cardinality(DOMAIN part.tiles) >= 1
    /\ Len(part.nodes) >= 1

\* ------------------------------------------------------------------------
\* C20
\* ------------------------------------------------------------------------
\* the names the three interning functions are called with: those of the
\* row, and one per table that no tile reports
InternNames ==
    [wire |-> {WA, WB, <<"C">>},
     speed |-> {S1, S2, <<"s", "3">>},
     slot_kind |-> {<<"S">>, <<"R">>}]

\* r1 is the result of interning the name n1 when the table is names and the
\* map is by_name; again is the result of interning n1 once more after that,
\* others the results of interning another name after that, and tab1 the
\* table after the first call
InternsWell(n1, r1, again, others, names, by_name, tab1) ==
    /\ r1.b.err = OK
    /\ again.i = r1.i
    /\ again.b = r1.b
    /\ \A o \in others : o.i # r1.i
    /\ IF n1 \in DOMAIN by_name
       THEN r1.b = Builder /\ r1.i = by_name[n1]
       ELSE r1.i = Len(names) /\ Len(tab1) = Len(names) + 1
    /\ tab1[r1.i + 1] = n1
    /\ \A j \in DOMAIN names : tab1[j] = names[j]

\* C20: wire_to_idx, speed_to_idx with a name and slot_kind_to_idx return
\* the same handle for the same name, without growing the table the second
\* time; return different handles for different names; give a name that is
\* new the length of the table before the call as its handle; and leave the
\* name at the handle's position in the table.
C20_Interning ==
    err = OK =>
        /\ \A n1 \in InternNames.wire :
               InternsWell(n1, wire_to_idx(Builder, n1),
                           wire_to_idx(wire_to_idx(Builder, n1).b, n1),
                           {wire_to_idx(wire_to_idx(Builder, n1).b, n2) :
                               n2 \in InternNames.wire \ {n1}},
                           part.wires, wires_by_name,
                           wire_to_idx(Builder, n1).b.part.wires)
        /\ \A n1 \in InternNames.speed :
               InternsWell(n1, speed_to_idx(Builder, Some(n1)),
                           speed_to_idx(speed_to_idx(Builder, Some(n1)).b, Some(n1)),
                           {speed_to_idx(speed_to_idx(Builder, Some(n1)).b, Some(n2)) :
                               n2 \in InternNames.speed \ {n1}},
                           part.speeds, speeds_by_name,
                           speed_to_idx(Builder, Some(n1)).b.part.speeds)
        /\ \A n1 \in InternNames.slot_kind :
               InternsWell(n1, slot_kind_to_idx(Builder, n1),
                           slot_kind_to_idx(slot_kind_to_idx(Builder, n1).b, n1),
                           {slot_kind_to_idx(slot_kind_to_idx(Builder, n1).b, n2) :
                               n2 \in InternNames.slot_kind \ {n1}},
                           part.slot_kinds, slot_kinds_by_name,
                           slot_kind_to_idx(Builder, n1).b.part.slot_kinds)

\* the three tables have names, and the second tile reported names that the
\* first had interned
C20_Witness ==
    /\ err = OK
    /\ Len(part.wires) = 2
    /\ Len(part.speeds) = 2
    /\ Len(part.slot_kinds) = 1
    /\ Cardinality(DOMAIN reported) = 2
    /\ reported[[x |-> 0, y |-> 0]].inp.wires = reported[[x |-> 1, y |-> 0]].inp.wires
    /\ Len(reported[[x |-> 0, y |-> 0]].inp.wires) = 2
    /\ reported[[x |-> 0, y |-> 0]].inp.sites # <<>>
    /\ reported[[x |-> 1, y |-> 0]].inp.sites # <<>>

\* ------------------------------------------------------------------------
\* C21
\* ------------------------------------------------------------------------
\* C21: speed_to_idx(None) returns the UNKNOWN sentinel and leaves the
\* builder, with its speeds table and its speeds_by_name index, as it was.
C21_NoSpeedIsUnknown ==
    err = OK =>
        /\ speed_to_idx(Builder, None).i = SpeedIdx_UNKNOWN
        /\ speed_to_idx(Builder, None).b = Builder
        /\ \A n \in DOMAIN speeds_by_name : speeds_by_name[n] # SpeedIdx_UNKNOWN
        /\ \A c \in DOMAIN reported : \A j \in DOMAIN reported[c].inp.sites :
               \A q \in DOMAIN reported[c].inp.sites[j].pins :
                   reported[c].inp.sites[j].pins[q].speed = None
                       => <<>> \notin Range(part.speeds)

\* a pin without a speed was reported, and the speeds table has a name
C21_Witness ==
    /\ last[1] = "add_tile"
    /\ last[4].sites # <<>>
    /\ last[4].sites[1].pins[1].speed = None
    /\ Len(part.speeds) >= 1

\* ------------------------------------------------------------------------
\* C22
\* ------------------------------------------------------------------------
\* the table new extends the table old, and the index new_by agrees with
\* the index old_by on every name old_by has
Extends(old, new, old_by, new_by) ==
    /\ Len(old) <= Len(new)
    /\ \A i \in DOMAIN old : new[i] = old[i]
    /\ \A n \in DOMAIN old_by :
           /\ n \in DOMAIN new_by
           /\ new_by[n] = old_by[n]
           /\ new[new_by[n] + 1] = n

\* C22: across every builder operation the wires, speeds and slot_kinds
\* tables are only appended to, and a handle that was returned for a name
\* keeps denoting that name.
C22_TablesGrow ==
    [][/\ Extends(part.wires, part'.wires, wires_by_name, wires_by_name')
       /\ Extends(part.speeds, part'.speeds, speeds_by_name, speeds_by_name')
       /\ Extends(part.slot_kinds, part'.slot_kinds, slot_kinds_by_name,
                  slot_kinds_by_name')]_vars

\* the second tile added a wire name, a speed name and a slot kind to tables
\* that had names
C22_Witness ==
    /\ Cardinality(DOMAIN reported) = 2
    /\ reported[[x |-> 0, y |-> 0]].inp.sites = <<>>
    /\ Len(reported[[x |-> 0, y |-> 0]].inp.wires) = 1
    /\ Len(part.wires) = 2
    /\ Len(part.speeds) = 2
    /\ Len(part.slot_kinds) = 1

\* ------------------------------------------------------------------------
\* C23
\* ------------------------------------------------------------------------
\* C23: whatever site list a tile was reported with, add_tile either fails
\* or leaves a tile kind in which no two sites are recorded under the same
\* TkSiteSlot.
C23_SlotsUnique ==
    \A k \in DOMAIN part.tile_kinds :
        \A i, j \in DOMAIN part.tile_kinds[k].sites :
            i # j => part.tile_kinds[k].sites[i].slot # part.tile_kinds[k].sites[j].slot

\* ------------------------------------------------------------------------
\* C24
\* ------------------------------------------------------------------------
\* the x (d = 1) or y (d = 2) coordinates of the sites of a reported list
\* whose name has a coordinate suffix on the given base
CoordsOf(sites, base, d) ==
    {IF d = 1 THEN split_xy(sites[q].name).x ELSE split_xy(sites[q].name).y :
        q \in {r \in DOMAIN sites : split_xy(sites[r].name).ok
                                    /\ split_xy(sites[r].name).base = base}}

\* C24: in a family without an overriding rule, a site named BASE_X<x>Y<y>
\* of a tile that add_tile has taken is recorded under the slot
\* Xy(handle of BASE, x - minx, y - miny), with minx and miny the minima
\* over the sites of that tile with the same BASE.
C24_XyNormalised ==
    part.family = Family.virtex7 =>
        \A c \in DOMAIN part.tiles \cap DOMAIN reported :
            \A j \in DOMAIN reported[c].inp.sites :
                LET sites == reported[c].inp.sites
                    sp == split_xy(sites[j].name)
                IN  sp.ok =>
                        /\ BoundSite(part, c, sites[j].name) # {}
                        /\ \A i \in BoundSite(part, c, sites[j].name) :
                               part.tile_kinds[part.tiles[c].kind].sites[i].slot
                                   = Xy(slot_kinds_by_name[sp.base],
                                        sp.x - Min(CoordsOf(sites, sp.base, 1)),
                                        sp.y - Min(CoordsOf(sites, sp.base, 2)))

\* ------------------------------------------------------------------------
\* C25
\* ------------------------------------------------------------------------
\* the speed a pip of the tile at c resolves to: the constant of a Const
\* pip, the tile's var_pips entry of a Variable pip
EffectiveSpeed(p, c, key) ==
    LET mode == p.tile_kinds[p.tiles[c].kind].pips[key].mode
    IN  IF mode.tag = "Const" THEN mode.v ELSE ResolvedPip(p.tiles[c], mode.v)

\* C25: the Part that from_file returns has the tiles and the pips of the
\* Part that was written, and every (tile, pip) pair resolves to the same
\* effective speed in both.
C25_PipSpeedRoundTrip ==
    loaded # <<>> =>
        /\ DOMAIN loaded[1].tiles = DOMAIN part.tiles
        /\ \A c \in DOMAIN part.tiles :
               /\ loaded[1].tiles[c].kind = part.tiles[c].kind
               /\ DOMAIN loaded[1].tile_kinds[part.tiles[c].kind].pips
                      = DOMAIN part.tile_kinds[part.tiles[c].kind].pips
               /\ \A key \in DOMAIN part.tile_kinds[part.tiles[c].kind].pips :
                      EffectiveSpeed(loaded[1], c, key) = EffectiveSpeed(part, c, key)

\* a Part read back whose two tiles resolve a Variable pip to two speeds
C25_Witness ==
    /\ loaded # <<>>
    /\ \E c, d \in DOMAIN part.tiles :
           \E key \in DOMAIN part.tile_kinds[KT].pips :
               /\ part.tile_kinds[KT].pips[key].mode.tag = "Variable"
               /\ EffectiveSpeed(loaded[1], c, key) # EffectiveSpeed(loaded[1], d, key)
               /\ EffectiveSpeed(loaded[1], c, key) \notin {SpeedIdx_NONE, SpeedIdx_UNKNOWN}

\* ------------------------------------------------------------------------
\* C26
\* ------------------------------------------------------------------------
\* the outcome r of a handle constructor for a table of length i, for a
\* handle type whose largest value is tmax and whose sentinels are S: a
\* length that is no handle of the type, or is a sentinel, is the builder's
\* error; any other length is the handle itself
HandleOrError(i, r, S, tmax) ==
    IF i > tmax \/ i \in S THEN r = -1 /\ err # OK
    ELSE r = i /\ r \notin S /\ r <= tmax

\* C26: a handle constructor called for a table length that the handle type
\* cannot hold, or that is a reserved sentinel, ends in an error, and
\* otherwise returns the length unchanged; no handle held by the builder is
\* a sentinel of its type, and the templates never outnumber the nodes.
C26_CapacityAndSentinels ==
    /\ last[1] = "WireIdx::from_raw"
           => HandleOrError(last[2], last[3], {WireIdx_NONE}, U32_MAX)
    /\ last[1] = "SpeedIdx::from_raw"
           => HandleOrError(last[2], last[3], {SpeedIdx_NONE, SpeedIdx_UNKNOWN}, U32_MAX)
    /\ last[1] = "NodeIdx::from_raw"
           => HandleOrError(last[2], last[3], {NodeIdx_NONE, NodeIdx_PENDING}, U32_MAX)
    /\ last[1] = "slot_kind" => HandleOrError(last[2], last[3], {}, U16_MAX)
    /\ last[1] = "template" => HandleOrError(last[2], last[3], {}, U32_MAX)
    /\ \A n \in DOMAIN wires_by_name : wires_by_name[n] # WireIdx_NONE
    /\ \A n \in DOMAIN speeds_by_name :
           speeds_by_name[n] \notin {SpeedIdx_NONE, SpeedIdx_UNKNOWN}
    /\ \A n \in DOMAIN slot_kinds_by_name : slot_kinds_by_name[n] <= U16_MAX
    /\ \A c \in DOMAIN part.tiles : \A q \in DOMAIN part.tiles[c].conn_wires :
           part.tiles[c].conn_wires[q] \in
               {NodeIdx_NONE, NodeIdx_PENDING} \cup (0..(Len(part.nodes) - 1))
    /\ Len(part.templates) <= Len(part.nodes)
    /\ \A q \in DOMAIN part.nodes : part.nodes[q].template < Len(part.templates)

\* the builder holds a node, and a speed handle was asked for a table whose
\* length is the sentinel UNKNOWN
C26_Witness ==
    /\ Len(part.nodes) = 1
    /\ last[1] = "SpeedIdx::from_raw"
    /\ last[2] = SpeedIdx_UNKNOWN
    /\ err # OK

\* ------------------------------------------------------------------------
\* C27
\* ------------------------------------------------------------------------
\* C27: a task of the batch dump that failed leaves no partial file at its
\* device's path, and a task that skips its device found a complete file
\* there.
C27_NeverPartialFile ==
    \A d \in Devices :
        /\ batch.pc[d] \in {"failed", "panicked"} => batch.disk[DevicePath(d)] # "partial"
        /\ batch.pc[d] = "skipped" => batch.disk[DevicePath(d)] = "complete"

\* ------------------------------------------------------------------------
\* C28
\* ------------------------------------------------------------------------
\* C28: a task that found its device's file leaves it as it found it and
\* neither calls the toolchain dump nor writes; a task that found no file
\* and ran to its end called the dump once and wrote the file once, and no
\* task does either twice; distinct devices have distinct paths.
C28_IdempotentBatch ==
    /\ \A d \in Devices :
           /\ batch.seen[d] \notin {"none", "absent"} =>
                  /\ batch.pc[d] = "skipped"
                  /\ batch.dumps[d] = 0
                  /\ batch.writes[d] = 0
                  /\ batch.disk[DevicePath(d)] = batch.seen[d]
           /\ batch.seen[d] = "absent" /\ batch.pc[d] = "done" =>
                  /\ batch.dumps[d] = 1
                  /\ batch.writes[d] = 1
                  /\ batch.disk[DevicePath(d)] = "complete"
           /\ batch.dumps[d] <= 1
           /\ batch.writes[d] <= 1
           /\ batch.writes[d] <= batch.dumps[d]
    /\ \A d, e \in Devices : d # e => DevicePath(d) # DevicePath(e)

\* a run that returned Ok after it skipped one device and dumped the other
C28_Witness ==
    /\ batch.run = "Ok"
    /\ \E d, e \in Devices :
           /\ batch.pc[d] = "skipped" /\ batch.seen[d] = "complete"
           /\ batch.pc[e] = "done" /\ batch.seen[e] = "absent"

\* ------------------------------------------------------------------------
\* C29
\* ------------------------------------------------------------------------
\* C29: main returns from the parallel iteration with a value only when
\* every task has returned, each with the file of its own device written
\* or skipped or with its own error; it returns Ok when no task failed and
\* otherwise the error of a task that failed.
C29_FailureIsolation ==
    batch.run \in {"Ok", "Err"} =>
        /\ \A d \in Devices :
               /\ batch.pc[d] \in Returned
               /\ batch.pc[d] = "done" => batch.disk[DevicePath(d)] = "complete"
               /\ batch.pc[d] = "skipped" => batch.seen[d] # "absent"
               /\ batch.pc[d] = "failed" => batch.cause[d] # "none"
        /\ batch.run = "Ok" <=> \A d \in Devices : batch.pc[d] # "failed"
        /\ batch.run = "Err" => batch.pc[batch.error_of] = "failed"

\* a run that returned the error of one device after the task of the other
\* wrote its file
C29_Witness ==
    /\ batch.run = "Err"
    /\ batch.cause[batch.error_of] = "get_rawdump"
    /\ \E e \in Devices : e # batch.error_of /\ batch.pc[e] = "done"

\* ------------------------------------------------------------------------
\* C30
\* ------------------------------------------------------------------------
\* C30: a failure of to_file in creating, encoding, compressing or
\* finishing the file ends the task with an error value, and from_file on a
\* file it cannot open or decode returns an error value.
C30_ErrorsAreValues ==
    /\ \A d \in Devices :
           batch.cause[d] \in {"File::create", "serialize_into", "finish"}
               => batch.pc[d] = "failed"
    /\ batch.read # <<>> => batch.read[2] \in {"Ok", "Err"}

\* ------------------------------------------------------------------------
\* C31
\* ------------------------------------------------------------------------
\* the whole of t matches the pattern
FullMatch(re, t) == Len(t) \in Range(Ends(re, t, 0))

\* s is a device of row k followed by a package of row k
RowMatches(k, s) ==
    \E m \in 0..Len(s) :
        /\ FullMatch(PATTERNS[k].dev, Slice(s, 0, m))
        /\ FullMatch(PATTERNS[k].pkg, Slice(s, m, Len(s)))

\* C31: split_partname(s) is None when no row of the table matches the
\* whole of s; otherwise it is (device, package, family) with device
\* followed by package equal to s, both fully matching the patterns of the
\* first row that matches s, and that row's family.  xc6slx9tqg144 gives
\* (xc6slx9, tqg144, spartan6) and xq6slx75tcs484 gives (xq6slx75t, cs484,
\* spartan6).
C31_SplitPartname ==
    last[1] = "split_partname" =>
        LET s == last[2]
            r == last[3]
            rows == {k \in DOMAIN PATTERNS : RowMatches(k, s)}
        IN  /\ r.some <=> rows # {}
            /\ r.some =>
                   /\ r.v[1] \o r.v[2] = s
                   /\ FullMatch(PATTERNS[Min(rows)].dev, r.v[1])
                   /\ FullMatch(PATTERNS[Min(rows)].pkg, r.v[2])
                   /\ r.v[3] = PATTERNS[Min(rows)].fam
            /\ s = <<"x", "c", "6", "s", "l", "x", "9", "t", "q", "g", "1", "4", "4">> =>
                   r = Some(<<<<"x", "c", "6", "s", "l", "x", "9">>,
                            <<"t", "q", "g", "1", "4", "4">>, <<"s", "p", "a", "r", "t", "a", "n", "6">>>>)
            /\ s = <<"x", "q", "6", "s", "l", "x", "7", "5", "t", "c", "s", "4", "8", "4">> =>
                   r = Some(<<<<"x", "q", "6", "s", "l", "x", "7", "5", "t">>,
                            <<"c", "s", "4", "8", "4">>, <<"s", "p", "a", "r", "t", "a", "n", "6">>>>)

\* split_partname returned the longer device for a name that the third row
\* can cut in two places
C31_Witness ==
    /\ last[1] = "split_partname"
    /\ last[2] = <<"x", "c", "2", "c", "6", "4", "a", "g", "g", "1", "0", "0">>
    /\ last[3] = Some(<<<<"x", "c", "2", "c", "6", "4", "a">>,
                        <<"g", "g", "1", "0", "0">>, <<"x", "b", "r">>>>)
    /\ Cardinality({m \in 0..Len(last[2]) :
           /\ FullMatch(PATTERNS[3].dev, Slice(last[2], 0, m))
           /\ FullMatch(PATTERNS[3].pkg, Slice(last[2], m, Len(last[2])))}) = 2

\* ------------------------------------------------------------------------
\* C32
\* ------------------------------------------------------------------------
\* every reported (tile, wire) pair is an endpoint of a call made so far
AllNamed == NodeCalls # <<>> /\ ReportedEndpoints \subseteq NamedEndpoints

\* the state of the wire named by the endpoint e in the kind of its tile
KindWire(e) ==
    part.tile_kinds[part.tiles[tiles_by_name[e.tile]].kind].wires[wires_by_name[e.wire]]

\* the endpoint e of a call that created the node n (NoNode: none) is
\* settled: its tile's entry is n, or its wire is still Internal
Settled(e, n) ==
    IF KindWire(e).tag = "Connected" THEN n # NoNode /\ NodeOf(e.tile, e.wire) = n
    ELSE KindWire(e).tag = "Internal" /\ n = NoNode

\* C32: when add_tile calls are followed by add_node calls in which each
\* reported (tile, wire) pair is an endpoint of exactly one call, then after
\* the last call every endpoint resolves to the node created for its call
\* or, when its call created no node, its wire is still Internal in the
\* tile's kind; no endpoint is left PENDING or NONE.
C32_NoEndpointUnresolved ==
    (err = OK /\ AllNamed) =>
        \A k \in DOMAIN NodeCalls :
            \A i \in DOMAIN NodeCalls[k].eps :
                Settled(NodeCalls[k].eps[i], NodeCalls[k].node)

\* ------------------------------------------------------------------------
\* C33
\* ------------------------------------------------------------------------
\* the entry w of the template of node n (a handle) is cached in the Part p:
\* a tile exists at base + delta, the wire is Connected there and the tile's
\* slot holds n
Cached(p, n, w) ==
    LET c == [x |-> p.nodes[n + 1].base.x + w.delta.x,
              y |-> p.nodes[n + 1].base.y + w.delta.y] IN
    /\ c \in DOMAIN p.tiles
    /\ LET tk == p.tile_kinds[p.tiles[c].kind] IN
       /\ w.wire \in DOMAIN tk.wires
       /\ tk.wires[w.wire].tag = "Connected"
       /\ Resolved(p.tiles[c], tk.wires[w.wire].v) = n

\* C33: after add_tile calls at distinct coordinates and add_node calls that
\* returned, for every node n and every entry (delta, wire, speed) of its
\* template a tile exists at base + delta, the wire is Connected(i) in that
\* tile's kind and the tile's conn_wires[i] is n; post_deserialize of the
\* Part as written succeeds and rebuilds these entries.
C33_NodeCacheConsistent ==
    /\ \A n \in DOMAIN part.nodes :
           LET tw == part.templates[part.nodes[n].template + 1].wires IN
           \A k \in DOMAIN tw : Cached(part, n - 1, tw[k])
    /\ LET l == from_file(Serialize(part)) IN
       /\ l.err = OK
       /\ \A n \in DOMAIN part.nodes :
              LET tw == part.templates[part.nodes[n].template + 1].wires IN
              \A k \in DOMAIN tw : Cached(l.part, n - 1, tw[k])

\* two nodes, the second with endpoints in two tiles, read back from the file
C33_Witness ==
    /\ loaded # <<>>
    /\ Len(part.nodes) = 2
    /\ \E k \in DOMAIN part.templates[part.nodes[2].template + 1].wires :
           part.templates[part.nodes[2].template + 1].wires[k].delta.x = 1
    /\ \A k \in DOMAIN part.templates[part.nodes[2].template + 1].wires :
           Cached(loaded[1], 1, part.templates[part.nodes[2].template + 1].wires[k])

\* ------------------------------------------------------------------------
\* C34
\* ------------------------------------------------------------------------
NoDuplicates(v) == \A i, j \in DOMAIN v : v[i] = v[j] => i = j

\* C34: in every reachable state and for every tile kind, wires[w] is
\* Connected(i) exactly when conn_wires[i] is w, and a pip's mode is
\* Variable(i) exactly when var_pips[i] is the pip; conn_wires and var_pips
\* hold no duplicates, and the conn_wires and var_pips arrays of every tile
\* of the kind are no longer than the kind's lists.
C34_SlotIndexConsistent ==
    \A k \in DOMAIN part.tile_kinds :
        LET tk == part.tile_kinds[k] IN
        /\ \A w \in DOMAIN tk.wires :
               tk.wires[w].tag = "Connected" =>
                   /\ tk.wires[w].v \in 0..(Len(tk.conn_wires) - 1)
                   /\ tk.conn_wires[tk.wires[w].v + 1] = w
        /\ \A i \in DOMAIN tk.conn_wires :
               /\ tk.conn_wires[i] \in DOMAIN tk.wires
               /\ tk.wires[tk.conn_wires[i]] = Connected(i - 1)
        /\ \A key \in DOMAIN tk.pips :
               tk.pips[key].mode.tag = "Variable" =>
                   /\ tk.pips[key].mode.v \in 0..(Len(tk.var_pips) - 1)
                   /\ tk.var_pips[tk.pips[key].mode.v + 1] = key
        /\ \A i \in DOMAIN tk.var_pips :
               /\ tk.var_pips[i] \in DOMAIN tk.pips
               /\ tk.pips[tk.var_pips[i]].mode = Variable(i - 1)
        /\ NoDuplicates(tk.conn_wires)
        /\ NoDuplicates(tk.var_pips)
        /\ \A c \in DOMAIN part.tiles :
               part.tiles[c].kind = k =>
                   /\ Len(part.tiles[c].conn_wires) <= Len(tk.conn_wires)
                   /\ Len(part.tiles[c].var_pips) <= Len(tk.var_pips)

\* a kind with two promoted wires and a variable pip, one of the wires
\* promoted by add_node, and a tile whose arrays are full
C34_Witness ==
    /\ Len(part.nodes) > 0
    /\ \E k \in DOMAIN part.tile_kinds :
           /\ Len(part.tile_kinds[k].conn_wires) = 2
           /\ Len(part.tile_kinds[k].var_pips) = 1
           /\ \E c \in DOMAIN part.tiles :
                  /\ part.tiles[c].kind = k
                  /\ Len(part.tiles[c].conn_wires) = 2
                  /\ Len(part.tiles[c].var_pips) = 1

\* ------------------------------------------------------------------------
\* C35
\* ------------------------------------------------------------------------
\* the speeds the toolchain listed for the wire named n over the tiles of
\* kind k
ReportedWireSpeeds(k, n) ==
    UNION {{reported[c].inp.wires[i].speed :
               i \in {j \in DOMAIN reported[c].inp.wires :
                         reported[c].inp.wires[j].name = n}} :
           c \in {d \in DOMAIN reported : reported[d].kind = k}}

\* a node that add_node created names the wire n in a tile of kind k
NamedInNode(k, n) ==
    \E m \in DOMAIN node_eps : \E j \in DOMAIN node_eps[m] :
        /\ node_eps[m][j].wire = n
        /\ part.tiles[tiles_by_name[node_eps[m][j].tile]].kind = k

\* C35: in every reachable state, a wire that is Internal(s) in a kind was
\* reported with speed s by every tile of the kind that reported it and is
\* named by no node that add_node created; a pip that is Const(s) was
\* reported with speed s by every tile of the kind that reported it.
C35_ConstantAgreement ==
    \A k \in DOMAIN part.tile_kinds :
        LET tk == part.tile_kinds[k] IN
        /\ \A h \in DOMAIN tk.wires :
               tk.wires[h].tag = "Internal" =>
                   /\ ReportedWireSpeeds(k, WireName(part, h))
                          \subseteq {SpeedView(part, tk.wires[h].v)}
                   /\ ~NamedInNode(k, WireName(part, h))
        /\ \A key \in DOMAIN tk.pips :
               tk.pips[key].mode.tag = "Const" =>
                   ReportedPipSpeeds(k, WireName(part, key[1]), WireName(part, key[2]))
                       \subseteq {SpeedView(part, tk.pips[key].mode.v)}

\* two tiles of a kind agree on a wire and on the pip, the other wire was
\* joined to a node: the first wire is Internal, the pip is Const
C35_Witness ==
    /\ Len(node_eps) > 0
    /\ \E k \in DOMAIN part.tile_kinds :
           LET tk == part.tile_kinds[k] IN
           /\ Len(tk.tiles) = 2
           /\ \E h \in DOMAIN tk.wires :
                  /\ tk.wires[h].tag = "Internal"
                  /\ Cardinality({c \in DOMAIN reported :
                                     WireName(part, h) \in ReportedWires(c)}) = 2
           /\ \E key \in DOMAIN tk.pips :
                  /\ tk.pips[key].mode.tag = "Const"
                  /\ ReportedPipSpeeds(k, WireName(part, key[1]), WireName(part, key[2]))
                         # {}

\* ------------------------------------------------------------------------
\* C36
\* ------------------------------------------------------------------------
\* C36: for every tile that was registered reporting a pip with speed s and
\* reporting both endpoint wires of the pip, the effective speed of the pip
\* in that tile (the constant of a Const pip, the tile's var_pips entry of a
\* Variable pip) is s, after whatever add_tile calls at other coordinates
\* and add_node calls followed.
C36_ReportedPipSpeedKept ==
    \A c \in DOMAIN reported :
        \A j \in DOMAIN reported[c].inp.pips :
            LET p == reported[c].inp.pips[j] IN
            {p.wf, p.wt} \subseteq ReportedWires(c) =>
                SpeedView(part, EffectiveSpeed(part, c, PipKey(p))) = p.speed

\* the first tile reported the pip with s1; a node was made on one of its
\* wires, then a second tile reported the pip with another speed: the pip is
\* Variable, and the first tile's entry is the speed it reported
C36_Witness ==
    /\ Len(part.nodes) > 0
    /\ last[1] = "add_tile"
    /\ \E c \in DOMAIN reported :
           /\ c # last[2]
           /\ \E j \in DOMAIN reported[c].inp.pips :
                  LET p == reported[c].inp.pips[j] IN
                  /\ p.speed.some
                  /\ \E i \in DOMAIN last[4].pips :
                         /\ last[4].pips[i].wf = p.wf
                         /\ last[4].pips[i].wt = p.wt
                         /\ last[4].pips[i].speed # p.speed
                  /\ part.tile_kinds[part.tiles[c].kind].pips[PipKey(p)].mode.tag
                         = "Variable"
                  /\ SpeedView(part, EffectiveSpeed(part, c, PipKey(p))) = p.speed

\* ------------------------------------------------------------------------
\* C37
\* ------------------------------------------------------------------------
\* C37: a wire that is Connected(i) in a kind is Connected(i) after every
\* step, a pip that is Variable(i) is Variable(i) after every step, and an
\* entry of a tile's conn_wires that holds a node holds the same node after
\* every add_tile at another coordinate and every add_node.
C37_PromotionIrreversible ==
    [][/\ \A k \in DOMAIN part.tile_kinds :
              /\ k \in DOMAIN part'.tile_kinds
              /\ \A h \in DOMAIN part.tile_kinds[k].wires :
                     part.tile_kinds[k].wires[h].tag = "Connected" =>
                         /\ h \in DOMAIN part'.tile_kinds[k].wires
                         /\ part'.tile_kinds[k].wires[h] = part.tile_kinds[k].wires[h]
              /\ \A key \in DOMAIN part.tile_kinds[k].pips :
                     part.tile_kinds[k].pips[key].mode.tag = "Variable" =>
                         /\ key \in DOMAIN part'.tile_kinds[k].pips
                         /\ part'.tile_kinds[k].pips[key].mode
                                = part.tile_kinds[k].pips[key].mode
       /\ \A c \in DOMAIN part.tiles :
              \A i \in DOMAIN part.tiles[c].conn_wires :
                  IsNode(part.tiles[c].conn_wires[i]) =>
                      /\ c \in DOMAIN part'.tiles
                      /\ i \in DOMAIN part'.tiles[c].conn_wires
                      /\ part'.tiles[c].conn_wires[i] = part.tiles[c].conn_wires[i]
      ]_vars

\* a tile holds a node on a wire, and add_tile has since returned for
\* another tile of the kind that lists the wire; the kind has a Variable pip
C37_Witness ==
    /\ last[1] = "add_tile"
    /\ \E c \in DOMAIN part.tiles :
           /\ c # last[2]
           /\ part.tiles[c].kind = last[3]
           /\ \E i \in DOMAIN part.tiles[c].conn_wires :
                  /\ IsNode(part.tiles[c].conn_wires[i])
                  /\ WireName(part, part.tile_kinds[last[3]].conn_wires[i])
                         \in ReportedWires(last[2])
    /\ \E key \in DOMAIN part.tile_kinds[last[3]].pips :
           part.tile_kinds[last[3]].pips[key].mode.tag = "Variable"

\* ------------------------------------------------------------------------
\* C38
\* ------------------------------------------------------------------------
\* a decimal number: one or more digits
IsDecimal(t) == t # <<>> /\ \A i \in DOMAIN t : IsDigit(t[i])

\* s is BASE + "_X" + decimal x + "Y" + decimal y with "_X" at offset p and
\* "Y" at offset q
HasXyForm(s, p, q) ==
    /\ p + 2 <= q
    /\ q < Len(s)
    /\ Slice(s, p, p + 2) = <<"_", "X">>
    /\ s[q + 1] = "Y"
    /\ IsDecimal(Slice(s, p + 2, q))
    /\ IsDecimal(Slice(s, q + 1, Len(s)))

\* the numeric parts of s as split_xy cuts them, at the last "_X" and at the
\* last "Y" of the remainder: <<>> for no such cut
NumericParts(s) ==
    LET p == RFind(s, <<"_", "X">>)
        rem == Slice(s, p + 2, Len(s))
        q == RFind(rem, <<"Y">>)
    IN  IF p = -1 \/ q = -1 THEN <<>>
        ELSE <<Slice(rem, 0, q), Slice(rem, q + 1, Len(rem))>>

\* C38: for a name of the form BASE + "_X" + decimal x + "Y" + decimal y
\* split_xy returns (BASE, x, y), cutting at the last "_X" and at the last
\* "Y" of the remainder; it returns None when there is no "_X", no "Y" after
\* it, or a numeric part is empty or is not a decimal number; SLICE_X123Y456
\* gives (SLICE, 123, 456).
C38_SplitXy ==
    last[1] = "split_xy" =>
        LET s == last[2]
            r == last[3]
        IN  /\ \A p \in 0..Len(s), q \in 0..Len(s) :
                   HasXyForm(s, p, q) =>
                       /\ r.ok
                       /\ r.base = Slice(s, 0, p)
                       /\ r.x = DecValue(Slice(s, p + 2, q))
                       /\ r.y = DecValue(Slice(s, q + 1, Len(s)))
                       /\ p = RFind(s, <<"_", "X">>)
                       /\ q = p + 2 + RFind(Slice(s, p + 2, Len(s)), <<"Y">>)
            /\ (\/ NumericParts(s) = <<>>
                \/ ~IsDecimal(NumericParts(s)[1])
                \/ ~IsDecimal(NumericParts(s)[2])) => ~r.ok
            /\ s = <<"S", "L", "I", "C", "E", "_", "X", "1", "2", "3", "Y", "4", "5", "6">>
                   => r = [base |-> <<"S", "L", "I", "C", "E">>, ok |-> TRUE,
                           x |-> 123, y |-> 456]

====
